---- MODULE Spec2Model ----
(***************************************************************************)
(* A model of landscape.package.facade: the mark queue and perform_changes  *)
(* of AptFacade (the modern adapter) and of SmartFacade (the legacy one).   *)
(*                                                                         *)
(* python-apt, dpkg and Smart are libraries outside the repository.  They  *)
(* are modelled by what the facade reads and writes through them:          *)
(*   - the dpkg database on disk (dpkg_installed, dpkg_hold);              *)
(*   - the opened apt cache, a snapshot of that database taken when the    *)
(*     cache is opened (cache_installed, cache_hold) plus the depcache's   *)
(*     speculative state (candidate, mode);                                *)
(*   - the problem resolver and the commit, whose outcomes are chosen      *)
(*     nondeterministically among those their interface allows.            *)
(***************************************************************************)
EXTENDS Integers, Sequences, FiniteSets, TLC

\* The number of facade calls in one behaviour.
MaxOps == 4

\* The package universe: b exists in two versions and depends on c.
Pkgs == {"b", "c"}

AllVersions ==
    { [package |-> "b", ver |-> 1],
      [package |-> "b", ver |-> 2],
      [package |-> "c", ver |-> 1] }

PkgVers(p) == { v.ver : v \in { w \in AllVersions : w.package = p } }

Depends(p) == IF p = "b" THEN {"c"} ELSE {}

Range(s) == { s[i] : i \in DOMAIN s }

Max(S) == CHOOSE x \in S : \A y \in S : y <= x

\* an empty dict
NoEntries == [ key \in {} |-> << >> ]

----------------------------------------------------------------------------
(* landscape.package.skeleton: strings are sequences of characters *)

PACKAGE == 1

PROVIDES == 2

REQUIRES == 4

UPGRADES == 8

CONFLICTS == 16

\* k << 16 | low: the low bits of k << 16 are clear, so the or is a sum
DEB_PACKAGE == 1 * 65536 + PACKAGE

DEB_PROVIDES == 2 * 65536 + PROVIDES

DEB_NAME_PROVIDES == 3 * 65536 + PROVIDES

DEB_REQUIRES == 4 * 65536 + REQUIRES

DEB_OR_REQUIRES == 5 * 65536 + REQUIRES

DEB_UPGRADES == 6 * 65536 + UPGRADES

DEB_CONFLICTS == 7 * 65536 + CONFLICTS

\* the code point of a character, for the comparison of strings
Ord(c) ==
    CASE c = " " -> 32
      [] c = "0" -> 48 [] c = "1" -> 49 [] c = "2" -> 50 [] c = "3" -> 51
      [] c = "4" -> 52 [] c = "5" -> 53 [] c = "6" -> 54 [] c = "7" -> 55
      [] c = "8" -> 56 [] c = "9" -> 57 [] c = ":" -> 58
      [] c = "<" -> 60 [] c = "=" -> 61 [] c = ">" -> 62
      [] c = "[" -> 91 [] c = "]" -> 93
      [] c = "a" -> 97 [] c = "b" -> 98 [] c = "c" -> 99 [] c = "d" -> 100
      [] c = "f" -> 102
      [] c = "|" -> 124

\* "%d" % n
DigitChars == << "0", "1", "2", "3", "4", "5", "6", "7", "8", "9" >>

RECURSIVE Digits(_)
Digits(n) ==
    IF n < 10 THEN << DigitChars[n + 1] >>
    ELSE Digits(n \div 10) \o << DigitChars[(n % 10) + 1] >>

\* str < str
RECURSIVE StrLess(_, _)
StrLess(s, t) ==
    IF t = << >> THEN FALSE
    ELSE IF s = << >> THEN TRUE
    ELSE IF Ord(Head(s)) # Ord(Head(t)) THEN Ord(Head(s)) < Ord(Head(t))
    ELSE StrLess(Tail(s), Tail(t))

\* (type, info) < (type, info): tuples compare item by item
PairLess(p, q) == p[1] < q[1] \/ (p[1] = q[1] /\ StrLess(p[2], q[2]))

\* list.sort() and sorted()
RECURSIVE Insert(_, _)
Insert(sorted, pair) ==
    IF sorted = << >> THEN << pair >>
    ELSE IF PairLess(pair, Head(sorted)) THEN << pair >> \o sorted
    ELSE << Head(sorted) >> \o Insert(Tail(sorted), pair)

\* faulty variant: the relations are hashed as they stand
Unsorted(relations) == relations

RECURSIVE Sort(_)
Sort(relations) ==
    IF relations = << >> THEN << >>
    ELSE Insert(Sort(Tail(relations)), Head(relations))

\* sorted(set): the order in which the set is walked does not show
RECURSIVE Sorted(_)
Sorted(relations) ==
    IF relations = {} THEN << >>
    ELSE LET pair == CHOOSE p \in relations : TRUE
         IN  Insert(Sorted(relations \ {pair}), pair)

\* the five optional fields hold << >> for None and << x >> for a value x
None == << >>

\* PackageSkeleton.__init__
PackageSkeleton(type, name, version) ==
    [ type |-> type, name |-> name, version |-> version,
      relations |-> << >>,
      section |-> None, summary |-> None, description |-> None,
      size |-> None, installed_size |-> None ]

\* "[%d %s %s]" % (self.type, self.name, self.version)
Header(skel) ==
    << "[" >> \o Digits(skel.type) \o << " " >> \o skel.name
              \o << " " >> \o skel.version \o << "]" >>

\* "[%d %s]" % pair
Entry(pair) == << "[" >> \o Digits(pair[1]) \o << " " >> \o pair[2] \o << "]" >>

RECURSIVE Entries(_)
Entries(relations) ==
    IF relations = << >> THEN << >>
    ELSE Entry(Head(relations)) \o Entries(Tail(relations))

\* get_hash, line 44: the skeleton after the call
sort_relations(skel) == [skel EXCEPT !.relations = Sort(@)]

\* the characters fed to the digest, as one string
RECURSIVE Bytes(_)
Bytes(chars) ==
    IF chars = << >> THEN "" ELSE Head(chars) \o Bytes(Tail(chars))

\* get_hash, lines 43-47.  SHA-1 is taken to be free of collisions: a
\* digest is represented by the bytes that were fed to it.
get_hash(skel) == Bytes(Header(skel) \o Entries(Sort(skel.relations)))

----------------------------------------------------------------------------
(* The package versions as python-apt shows them *)

\* a second stanza of c 1 (another Installed-Size): a version of its own
\* in the cache, with the name, the version string and the relations of c 1
rebuilt == [package |-> "c", ver |-> 2]

\* b for a foreign architecture f: its name is "b:f", its shortname "b"
foreign == [package |-> "f", ver |-> 1]

\* the version objects a cache may hold
CacheVersions == AllVersions \cup {rebuilt, foreign}

\* the order in which iterating over a cache, and over the versions of each
\* of its packages, meets them; the first three are the versions Smart has
CacheOrder ==
    << [package |-> "b", ver |-> 1], [package |-> "b", ver |-> 2],
       [package |-> "c", ver |-> 1], rebuilt, foreign >>

\* version.package.name and version.package.shortname
package_name(package) ==
    IF package = "f" THEN << "b", ":", "f" >> ELSE << package >>

package_shortname(package) ==
    IF package = "f" THEN << "b" >> ELSE << package >>

\* version.version
version_string(version) ==
    IF version = rebuilt THEN << "1" >> ELSE Digits(version.ver)

\* str(version) of an apt.package.Version: "name=version"
version_str(version) ==
    package_name(version.package) \o << "=" >> \o version_string(version)

\* apt_pkg.parse_depends(version.record.get(field, "")): a list of
\* alternatives, each a list of (name, version, relation)
parse_depends(version, field) ==
    IF version.package \in {"b", "f"} /\ field = "Depends"
    THEN << << << << "c" >>, << >>, << >> >> >> >>
    ELSE IF version.package = "b" /\ version.ver = 2 /\ field = "Pre-Depends"
    THEN << << << << "c" >>, << >>, << >> >>,
               << << "d" >>, << "1" >>, << ">", "=" >> >> >> >>
    ELSE IF version.package = "b" /\ version.ver = 2 /\ field = "Breaks"
    THEN << << << << "c" >>, << "1" >>, << "<", "<" >> >> >> >>
    ELSE IF version.package = "c" /\ field = "Provides"
    THEN << << << << "d" >>, << >>, << >> >> >> >>
    ELSE << >>

\* version.section, summary, description, size, installed_size
version_section(version) == "section"

version_summary(version) == "summary"

version_description(version) == "description"

version_size(version) == IF version = rebuilt THEN 4 ELSE 3

version_installed_size(version) ==
    IF version.package = "c" /\ version.ver = 1 THEN 0 ELSE 5

\* relation_to_string
relation_to_string(relation_tuple) ==
    LET name          == relation_tuple[1]
        version       == relation_tuple[2]
        relation_type == relation_tuple[3]
    IN  IF relation_type # << >>
        THEN name \o << " " >> \o relation_type \o << " " >> \o version
        ELSE name

\* " | ".join(value_strings)
RECURSIVE Join(_)
Join(value_strings) ==
    IF Len(value_strings) = 1 THEN Head(value_strings)
    ELSE Head(value_strings) \o << " ", "|", " " >> \o Join(Tail(value_strings))

\* parse_record_field
parse_record_field(version, record_field, relation_type, or_relation_type) ==
    LET values == parse_depends(version, record_field)
    IN  { << IF Len(values[i]) > 1 THEN or_relation_type ELSE relation_type,
             Join([ j \in DOMAIN values[i] |-> relation_to_string(values[i][j]) ]) >> :
          i \in DOMAIN values }

\* build_skeleton_apt, lines 154-175: the set of relations.  The name
\* provides and the upgrades relation are rendered from the version object.
apt_relations(version) ==
    LET name == package_name(version.package)
    IN  parse_record_field(version, "Provides", DEB_PROVIDES, DEB_PROVIDES)
        \cup { << DEB_NAME_PROVIDES,
                  name \o << " ", "=", " " >> \o version_str(version) >> }
        \cup parse_record_field(version, "Pre-Depends", DEB_REQUIRES,
                                DEB_OR_REQUIRES)
        \cup parse_record_field(version, "Depends", DEB_REQUIRES,
                                DEB_OR_REQUIRES)
        \cup { << DEB_UPGRADES,
                  name \o << " ", "<", " " >> \o version_str(version) >> }
        \cup parse_record_field(version, "Conflicts", DEB_CONFLICTS,
                                DEB_CONFLICTS)
        \cup parse_record_field(version, "Breaks", DEB_CONFLICTS,
                                DEB_CONFLICTS)

\* faulty variant: the summary is filed among the relations as well
version_info_as_relation(skel, version) ==
    [skel EXCEPT !.section = << version_section(version) >>,
                 !.summary = << version_summary(version) >>,
                 !.description = << version_description(version) >>,
                 !.size = << version_size(version) >>,
                 !.relations = Append(@, << DEB_PROVIDES, << "a" >> >>)]

\* build_skeleton_apt, lines 178-184
version_info(skel, version) ==
    [skel EXCEPT !.section = << version_section(version) >>,
                 !.summary = << version_summary(version) >>,
                 !.description = << version_description(version) >>,
                 !.size = << version_size(version) >>,
                 !.installed_size =
                     IF version_installed_size(version) > 0
                     THEN << version_installed_size(version) >> ELSE @]

\* build_skeleton_apt; unicode() of an ASCII string has the same characters
build_skeleton_apt(version, with_info) ==
    LET skel == [ PackageSkeleton(DEB_PACKAGE, package_name(version.package),
                                  version_string(version))
                  EXCEPT !.relations = Sorted(apt_relations(version)) ]
    IN  IF with_info THEN version_info(skel, version) ELSE skel

\* The same packages as Smart shows them: a DebPackage per version
\* build_skeleton, lines 67-81: str() of a Smart relation is its name, or
\* "name relation version"; the package provides its own name and upgrades
\* its older versions
smart_relations(pkg) ==
    LET name == package_name(pkg.package)
    IN  parse_record_field(pkg, "Provides", DEB_PROVIDES, DEB_PROVIDES)
        \cup { << DEB_NAME_PROVIDES,
                  name \o << " ", "=", " " >> \o version_string(pkg) >> }
        \cup parse_record_field(pkg, "Pre-Depends", DEB_REQUIRES,
                                DEB_OR_REQUIRES)
        \cup parse_record_field(pkg, "Depends", DEB_REQUIRES, DEB_OR_REQUIRES)
        \cup { << DEB_UPGRADES,
                  name \o << " ", "<", " " >> \o version_string(pkg) >> }
        \cup parse_record_field(pkg, "Conflicts", DEB_CONFLICTS, DEB_CONFLICTS)
        \cup parse_record_field(pkg, "Breaks", DEB_CONFLICTS, DEB_CONFLICTS)

\* build_skeleton, lines 85-91: the info of the package's first loader
loader_info(skel, pkg) ==
    [skel EXCEPT !.section = << version_section(pkg) >>,
                 !.summary = << version_summary(pkg) >>,
                 !.description = << version_description(pkg) >>,
                 !.size = << version_size(pkg) >>,
                 !.installed_size = << version_installed_size(pkg) >>]

\* build_skeleton
build_skeleton(pkg, with_info) ==
    LET skel == [ PackageSkeleton(DEB_PACKAGE, package_name(pkg.package),
                                  version_string(pkg))
                  EXCEPT !.relations = Sorted(smart_relations(pkg)) ]
    IN  IF with_info THEN loader_info(skel, pkg) ELSE skel

\* AptFacade.get_package_skeleton of every version a cache may hold, built
\* once and kept by << version, with_info >>
RECURSIVE apt_skeletons(_)
apt_skeletons(versions) ==
    IF versions = << >> THEN NoEntries
    ELSE LET version == Head(versions)
         IN  (<< version, TRUE >> :> build_skeleton_apt(version, TRUE))
             @@ (<< version, FALSE >> :> build_skeleton_apt(version, FALSE))
             @@ apt_skeletons(Tail(versions))

apt_skeleton == apt_skeletons(CacheOrder)

\* SmartFacade.get_package_skeleton of every package a cache may hold
RECURSIVE smart_skeletons(_)
smart_skeletons(pkgs) ==
    IF pkgs = << >> THEN NoEntries
    ELSE LET pkg == Head(pkgs)
         IN  (<< pkg, TRUE >> :> build_skeleton(pkg, TRUE))
             @@ (<< pkg, FALSE >> :> build_skeleton(pkg, FALSE))
             @@ smart_skeletons(Tail(pkgs))

smart_skeleton == smart_skeletons(SubSeq(CacheOrder, 1, 3))

\* get_package_skeleton(version, with_info=False).get_hash() of every
\* version, on AptFacade and on SmartFacade
RECURSIVE apt_hashes(_)
apt_hashes(versions) ==
    IF versions = << >> THEN NoEntries
    ELSE (Head(versions) :> get_hash(apt_skeleton[Head(versions), FALSE]))
         @@ apt_hashes(Tail(versions))

apt_hash == apt_hashes(CacheOrder)

RECURSIVE smart_hashes(_)
smart_hashes(pkgs) ==
    IF pkgs = << >> THEN NoEntries
    ELSE (Head(pkgs) :> get_hash(smart_skeleton[Head(pkgs), FALSE]))
         @@ smart_hashes(Tail(pkgs))

smart_hash == smart_hashes(SubSeq(CacheOrder, 1, 3))

VARIABLES
    \* AptFacade: the mark queue
    version_installs, version_removals,
    version_hold_creations, version_hold_removals, global_upgrade,
    \* the catalog index of the facade: _hash2pkg, _pkg2hash and
    \* _channels_loaded
    hash2pkg, pkg2hash, channels_loaded,
    \* the versions the opened cache of the backend holds
    cache_packages,
    \* the outcome of the last reload_channels call ("-": none yet), and how
    \* many successful reloads in a row found the same versions (2: two or
    \* more)
    reload_result, reloads,
    \* every version a reload has indexed since the facade was constructed
    once_indexed,
    \* whether a reload has returned since the facade was constructed, and the
    \* outcome of the last ensure_channels_reloaded call ("-": none yet,
    \* "skipped": it returned without reloading)
    ever_reloaded, ensure_result,
    \* the dpkg database: installed version per package (0: none), held names
    dpkg_installed, dpkg_hold,
    \* the opened apt cache: its snapshot of the database and the depcache
    cache_installed, cache_hold, candidate, mode,
    \* the outcome of the last perform_changes call ("-" after any other call)
    result, error_text, error_names, error_packages,
    \* what the last perform_changes call did to the package engine
    calls, planned, committed,
    \* the commit of the last perform_changes call: the dpkg_exited
    \* attribute of its LandscapeInstallProgress ("-": none was created) and
    \* the captured output, result_text
    dpkg_exited, result_text,
    \* what follows the resolver's message in the text of the
    \* TransactionError of lines 647-648 ("" for any other outcome)
    error_report,
    \* the process: the front-end variables of os.environ, and DPkg::options
    \* of apt_pkg.config
    environ, dpkg_options,
    \* SmartFacade
    marks, smart_installed, smart_result, smart_missing, smart_calls,
    smart_changeset,
    \* two PackageSkeleton objects, the relations each was given, in the
    \* order it was given them, and what get_hash last returned for each
    \* (<< >> once the skeleton was changed after the call, or before any)
    skeleton, added, digest,
    \* for a skeleton a builder returned: << version, with_info, adapter >>
    built,
    \* AptFacade: "-" unless reset_marks was the last call that was not
    \* perform_changes; then what the call before it was: "reset" if not
    \* perform_changes, else the outcome of that perform_changes
    reset_after,
    \* the internal sources list of AptFacade (<< >>: no such file,
    \* << content >> otherwise), and the lines given to add_channel_apt_deb
    \* since the file was last absent, each once, in the order they first came
    sources_list, first_added,
    \* _is_dependency_satisfied on its own: what the cache says of each
    \* package, and the last call, << dependency, dep_type, result >> (<< >>
    \* before any)
    dep_flags, dep_checked,
    \* BrokerServer: _registered_clients (name -> remote client) and
    \* _connectors (remote client -> connector); the connects still pending,
    \* how many connectors were created, and the remote clients a connect
    \* has produced
    registered_clients, connectors, connecting, created, connected,
    \* the clients the last event broadcast called fire_event on
    event_reached,
    \* the broadcast_message in flight (<< >>: none), what the exchanger was
    \* asked to send, and the last broadcast whose results were gathered
    delivering, exchanger_sent, delivered,
    \* the last exit or stop_clients call: the answer of each client told
    \* to exit ("pending": none yet), the state of the deferred of
    \* stop_clients ("pending", "result" or "failure") with the method that
    \* was called, and the delays given to reactor.call_later
    exiting, clients_stopped, call_later,
    \* the handlers call_on has registered and not cancelled, the calls of
    \* the listen_events call, the handlers the running fire has yet to
    \* run, the values its deferred fired with, and the handlers that raised
    event_handlers, listen_calls, running, deferred_fired, handler_errors,
    \* the first event, among those listened for, fired since listen_events
    first_event,
    \* the open file descriptors of the process, the temporary files that
    \* exist, and the locals and position of the commit section of
    \* perform_changes
    fds, tmp_files, commit_frame,
    \* the "channels" entry of smart.sysconf
    smart_channels,
    \* which adapter was constructed, and the facade calls made so far
    facade, ops

queue == << version_installs, version_removals, version_hold_creations,
            version_hold_removals, global_upgrade >>

dpkg == << dpkg_installed, dpkg_hold >>

cache == << cache_installed, cache_hold >>

depcache == << candidate, mode >>

outcome == << result, error_text, error_names, error_packages,
              calls, planned, committed, dpkg_exited, result_text,
              error_report >>

process == << environ, dpkg_options >>

catalog == << hash2pkg, pkg2hash, channels_loaded, cache_packages,
             reload_result, reloads, once_indexed, ever_reloaded,
             ensure_result >>

aptvars == << queue, catalog, dpkg, cache, depcache, outcome, process,
             reset_after >>

smartvars == << marks, smart_installed, smart_result, smart_missing,
                smart_calls, smart_changeset >>

skelvars == << skeleton, added, digest, built >>

channelvars == << sources_list, first_added, smart_channels >>

depvars == << dep_flags, dep_checked >>

registryvars == << registered_clients, connectors, connecting, created,
                   connected, event_reached >>

messagevars == << delivering, exchanger_sent, delivered >>

exitvars == << exiting, clients_stopped, call_later >>

listenvars == << event_handlers, listen_calls, running, deferred_fired,
                 handler_errors, first_event >>

brokervars == << registryvars, messagevars, exitvars, listenvars >>

stdiovars == << fds, tmp_files, commit_frame >>

vars == << aptvars, smartvars, skelvars, channelvars, depvars, brokervars,
          stdiovars, facade, ops >>

----------------------------------------------------------------------------
(* The apt cache *)

\* Cache.open: the policy's candidate is the newest version, nothing marked.
DefaultCandidate == [ p \in Pkgs |-> Max(PkgVers(p)) ]

DefaultMode == [ p \in Pkgs |-> "keep" ]

\* AptFacade.is_package_installed: version == version.package.installed
is_package_installed(version) ==
    version.ver = cache_installed[version.package]

\* AptFacade._is_package_held: selected_state of the opened cache
is_package_held(package) == package \in cache_hold

\* A depcache state st is [candidate, mode] plus the resolver's flags
\* [protected, remove].  InstVer is the version st will leave installed.
InstVer(st, p) ==
    IF st.mode[p] = "delete" THEN 0
    ELSE IF st.mode[p] = "install" THEN st.candidate[p]
    ELSE cache_installed[p]

\* package.is_inst_broken: a dependency is missing in the install state
IsInstBroken(st, p) ==
    /\ InstVer(st, p) # 0
    /\ \E d \in Depends(p) : InstVer(st, d) = 0

\* AptFacade.get_packages: the values of _hash2pkg
get_packages == Range(hash2pkg)

\* AptFacade._get_broken_packages
get_broken_packages(st) ==
    { v.package : v \in { w \in get_packages : IsInstBroken(st, w.package) } }

\* depcache.mark_install of one package, without following dependencies:
\* a candidate that is the installed version leaves the package kept.
InstallMode(st, p) ==
    IF st.candidate[p] = cache_installed[p] THEN "keep" ELSE "install"

\* depcache.mark_delete of one package: nothing to delete if not installed.
DeleteMode(p) == IF cache_installed[p] = 0 THEN "keep" ELSE "delete"

\* Package.mark_install(auto_fix=False): auto_inst stays True, so every
\* dependency that would be missing is marked for installation as well.
pkg_mark_install(st, p) ==
    LET st1 == [st EXCEPT !.mode[p] = InstallMode(st, p)]
    IN  IF st1.mode[p] = "keep" THEN st1
        ELSE [st1 EXCEPT !.mode =
                 [ q \in Pkgs |->
                     IF q \in Depends(p) /\ InstVer(st1, q) = 0
                     THEN InstallMode(st1, q) ELSE st1.mode[q] ]]

\* Package.mark_delete(auto_fix=False)
pkg_mark_delete(st, p) == [st EXCEPT !.mode[p] = DeleteMode(p)]

\* ProblemResolver.install_protect: re-marks every protected package.
install_protect(st) ==
    [st EXCEPT !.mode =
        [ q \in Pkgs |->
            IF q \notin st.protected THEN st.mode[q]
            ELSE IF q \in st.remove THEN DeleteMode(q)
            ELSE InstallMode(st, q) ]]

----------------------------------------------------------------------------
(* AptFacade.perform_changes, lines 574-583: what is queued *)

package_installs == { v.package : v \in Range(version_installs) }

package_upgrades ==
    { v.package :
        v \in { w \in Range(version_removals) : w.package \in package_installs } }

version_changes == version_installs \o version_removals

hold_changes == version_hold_creations \o version_hold_removals

\* faulty variant: the short-circuit of lines 584-586 is never taken
nothing_queued_never == FALSE

nothing_queued ==
    hold_changes = << >> /\ version_changes = << >> /\ ~global_upgrade

----------------------------------------------------------------------------
(* lines 587-605: the hold changes, written to the dpkg database *)

\* faulty variant: a target counts as installed when any version of its
\* package is
not_installed_package_level ==
    { v \in Range(version_hold_creations) : cache_installed[v.package] = 0 }

not_installed ==
    { v \in Range(version_hold_creations) : ~is_package_installed(v) }

\* set_package_hold: echo "<name> hold" | dpkg --set-selections
set_package_hold(hold, version) == hold \cup {version.package}

\* remove_package_hold: a no-op unless the cache shows the version installed
\* and its package held
remove_package_hold(hold, version) ==
    IF ~is_package_installed(version) \/ ~is_package_held(version.package)
    THEN hold
    ELSE hold \ {version.package}

RECURSIVE CreateHolds(_, _)
CreateHolds(hold, s) ==
    IF s = << >> THEN hold
    ELSE CreateHolds(set_package_hold(hold, Head(s)), Tail(s))

RECURSIVE RemoveHolds(_, _)
RemoveHolds(hold, s) ==
    IF s = << >> THEN hold
    ELSE RemoveHolds(remove_package_hold(hold, Head(s)), Tail(s))

\* faulty variant: the removals are applied before the creations
holds_changed_removals_first ==
    CreateHolds(RemoveHolds(dpkg_hold, version_hold_removals),
                version_hold_creations)

\* the dpkg holds after the loops of lines 599-603
holds_changed ==
    RemoveHolds(CreateHolds(dpkg_hold, version_hold_creations),
                version_hold_removals)

----------------------------------------------------------------------------
(* lines 606-636: marking *)

\* the depcache as the call finds it, and a fresh ProblemResolver
fixer == [ candidate |-> candidate, mode |-> mode,
           protected |-> {}, remove |-> {} ]

already_broken_packages == get_broken_packages(fixer)

\* lines 609-619, one version: candidate, mark_install, clear, protect
InstallVersion(st, version) ==
    LET p   == version.package
        st1 == [st EXCEPT !.candidate[p] = version.ver]
        st2 == pkg_mark_install(st1, p)
    IN  [st2 EXCEPT !.protected = @ \cup {p}, !.remove = @ \ {p}]

RECURSIVE MarkInstalls(_, _)
MarkInstalls(st, s) ==
    IF s = << >> THEN st
    ELSE MarkInstalls(InstallVersion(st, Head(s)), Tail(s))

\* Cache.upgrade(dist_upgrade=True): every installed package that is not
\* held is marked for its candidate, dependencies included.
RECURSIVE UpgradeAll(_, _)
UpgradeAll(st, todo) ==
    IF todo = {} THEN st
    ELSE LET p == CHOOSE q \in todo : TRUE
         IN  UpgradeAll(pkg_mark_install(st, p), todo \ {p})

upgrade(st) ==
    UpgradeAll(st, { p \in Pkgs : cache_installed[p] # 0 /\ p \notin cache_hold })

\* faulty variant: the old half of an upgrade is marked for deletion like
\* any other removal
RemoveVersion_marking_upgrades(st, version) ==
    LET p   == version.package
        st1 == pkg_mark_delete(st, p)
    IN  install_protect(
           [st1 EXCEPT !.protected = @ \cup {p}, !.remove = @ \cup {p}])

\* lines 625-636, one version: the old half of an upgrade is skipped
RemoveVersion(st, version) ==
    LET p == version.package
    IN  IF p \in package_upgrades THEN st
        ELSE LET st1 == pkg_mark_delete(st, p)
             IN  install_protect(
                    [st1 EXCEPT !.protected = @ \cup {p},
                                !.remove = @ \cup {p}])

RECURSIVE MarkRemovals(_, _)
MarkRemovals(st, s) ==
    IF s = << >> THEN st
    ELSE MarkRemovals(RemoveVersion(st, Head(s)), Tail(s))

\* the depcache and the resolver after lines 609-636
marked ==
    LET st1 == MarkInstalls(fixer, version_installs)
        st2 == IF global_upgrade THEN upgrade(st1) ELSE st1
    IN  MarkRemovals(st2, version_removals)

\* faulty variant: the held check placed after the skip of an upgrade's old
\* half
held_package_names_skipping_upgrades ==
    { v.package :
        v \in { w \in Range(version_removals) :
                  /\ w.package \notin package_upgrades
                  /\ is_package_held(w.package) } }

\* lines 623-624
held_package_names ==
    { v.package :
        v \in { w \in Range(version_removals) : is_package_held(w.package) } }

\* faulty variant: the set is recomputed before the delete marks of lines
\* 622-636
now_broken_packages_before_removals ==
    get_broken_packages(
        LET st1 == MarkInstalls(fixer, version_installs)
        IN  IF global_upgrade THEN upgrade(st1) ELSE st1)

\* line 642
now_broken_packages == get_broken_packages(marked)

----------------------------------------------------------------------------
(* lines 643-651: the resolver and the requested-versus-actual check *)

\* ProblemResolver.resolve: an opaque engine.  When it returns, no package
\* is broken and no protected package has been touched.
resolve(st) ==
    { m \in [Pkgs -> {"keep", "install", "delete"}] :
        LET st1 == [st EXCEPT !.mode = m]
        IN  /\ \A p \in st.protected : m[p] = st.mode[p]
            /\ \A p \in Pkgs : m[p] = "install" => InstallMode(st, p) = "install"
            /\ \A p \in Pkgs : m[p] = "delete" => DeleteMode(p) = "delete"
            /\ \A p \in Pkgs : ~IsInstBroken(st1, p) }

\* the depcache states _check_changes may see
resolved ==
    IF now_broken_packages # already_broken_packages
    THEN { [marked EXCEPT !.mode = m] : m \in resolve(marked) }
    ELSE { marked }

\* Cache.get_changes
get_changes(st) == { p \in Pkgs : st.mode[p] # "keep" }

\* AptFacade._get_changed_versions, as (package, version) pairs
get_changed_versions(st, p) ==
    IF st.mode[p] = "install" /\ cache_installed[p] = 0
    THEN { [package |-> p, ver |-> st.candidate[p]] }
    ELSE IF st.mode[p] = "install"
    THEN { [package |-> p, ver |-> cache_installed[p]],
           [package |-> p, ver |-> st.candidate[p]] }
    ELSE IF st.mode[p] = "delete"
    THEN { [package |-> p, ver |-> cache_installed[p]] }
    ELSE {}

\* _check_changes, lines 483-489
versions_to_be_changed(st) ==
    UNION { get_changed_versions(st, p) : p \in get_changes(st) }

\* faulty variant: versions compared by number alone, the mistake the
\* comment of lines 478-480 warns about
dependencies_by_version(st, requested_changes) ==
    { v \in versions_to_be_changed(st) :
        v.ver \notin { w.ver : w \in Range(requested_changes) } }

\* faulty variant: the check is skipped
dependencies_none(st, requested_changes) == {}

\* faulty variant: the changes of a global upgrade count as requested
dependencies_upgrade_requested(st, requested_changes) ==
    IF global_upgrade THEN {}
    ELSE versions_to_be_changed(st) \ Range(requested_changes)

\* _check_changes, line 490
dependencies(st, requested_changes) ==
    versions_to_be_changed(st) \ Range(requested_changes)

----------------------------------------------------------------------------
(* lines 496-560: the report of the unmet dependencies *)

\* sorted(..., key=attrgetter("name")) of the packages of the universe
PkgOrder == << "b", "c" >>

\* the keys of depends_list that line 545 walks, and the field of the
\* record that each key comes from
DepTypes == << "PreDepends", "Depends", "Conflicts", "Breaks" >>

record_field(dep_type) ==
    IF dep_type = "PreDepends" THEN "Pre-Depends" ELSE dep_type

\* the version number a one-digit string spells
Number(chars) == CHOOSE n \in 0..9 : DigitChars[n + 1] = Head(chars)

\* whether a version meets (comp_type, target_ver)
compare(ver, comp_type, target_ver) ==
    IF target_ver = << >> THEN TRUE
    ELSE IF comp_type = << "<", "<" >> THEN ver < Number(target_ver)
    ELSE IF comp_type = << ">", "=" >> THEN ver >= Number(target_ver)
    ELSE ver = Number(target_ver)

\* whether a version provides the name (an unversioned Provides)
provides(version, name) ==
    \E group \in Range(parse_depends(version, "Provides")) :
        \E provided \in Range(group) : provided[1] = name

\* target.parent_pkg for target in or_dep.all_targets(): the packages with
\* a version that meets the alternative, or that provides its name when
\* the alternative has no version
all_targets(alternative) ==
    SelectSeq(PkgOrder,
        LAMBDA p :
            \E v \in AllVersions :
                /\ v.package = p
                /\ \/ /\ << p >> = alternative[1]
                      /\ compare(v.ver, alternative[3], alternative[2])
                   \/ /\ alternative[2] = << >>
                      /\ provides(v, alternative[1]))

\* one apt_pkg.Dependency of an or-group
dep_relation(alternative) ==
    [ target_pkg |-> alternative[1], target_ver |-> alternative[2],
      comp_type |-> alternative[3], all_targets |-> all_targets(alternative) ]

\* version._cand.depends_list.get(dep_type, [])
depends_list(version, dep_type) ==
    LET groups == parse_depends(version, record_field(dep_type))
    IN  [ i \in DOMAIN groups |->
            [ j \in DOMAIN groups[i] |-> dep_relation(groups[i][j]) ] ]

\* what lines 526-528 read of each package: current_state, and
\* marked_install and marked_delete of the depcache
package_flags(st) ==
    [ p \in Pkgs |->
        [ current_state |->
              IF cache_installed[p] # 0 THEN "Installed" ELSE "NotInstalled",
          marked_install |-> st.mode[p] = "install" /\ cache_installed[p] = 0,
          marked_delete |-> st.mode[p] = "delete" ] ]

\* faulty variant: a package marked for deletion still counts
going_to_be_installed_ignoring_delete(flag) ==
    flag.current_state = "Installed" \/ flag.marked_install

\* lines 526-528
going_to_be_installed(flag) ==
    /\ flag.current_state = "Installed" \/ flag.marked_install
    /\ ~flag.marked_delete

\* lines 524-529: the inner loop, left at the first target found
RECURSIVE target_found(_, _)
target_found(flags, targets) ==
    IF targets = << >> THEN FALSE
    ELSE IF going_to_be_installed(flags[Head(targets)]) THEN TRUE
    ELSE target_found(flags, Tail(targets))

\* lines 523-529: the outer loop
RECURSIVE alternative_found(_, _)
alternative_found(flags, dependency) ==
    IF dependency = << >> THEN FALSE
    ELSE IF target_found(flags, Head(dependency).all_targets) THEN TRUE
    ELSE alternative_found(flags, Tail(dependency))

\* AptFacade._is_dependency_satisfied
is_dependency_satisfied(flags, dependency, dep_type) ==
    LET is_positive == dep_type \notin {"Breaks", "Conflicts"}
    IN  IF alternative_found(flags, dependency) THEN is_positive
        ELSE ~is_positive

\* faulty variant: the reason is never looked up
get_unmet_relation_info_not_installable(st, relation) ==
    Bytes(relation.target_pkg)
    \o (IF relation.target_ver = << >> THEN ""
        ELSE " (" \o Bytes(relation.comp_type) \o " "
                  \o Bytes(relation.target_ver) \o ")")
    \o " but is not installable"

\* AptFacade._get_unmet_relation_info, lines 496-511
get_unmet_relation_info(st, relation) ==
    LET info == Bytes(relation.target_pkg)
                \o (IF relation.target_ver = << >> THEN ""
                    ELSE " (" \o Bytes(relation.comp_type) \o " "
                              \o Bytes(relation.target_ver) \o ")")
        in_cache == { p \in Pkgs : << p >> = relation.target_pkg }
        dep_package == CHOOSE p \in in_cache : TRUE
        flag == package_flags(st)[dep_package]
        version == IF dep_package \in get_changes(st)
                   THEN st.candidate[dep_package]
                   ELSE cache_installed[dep_package]
    IN  IF in_cache # {}
           /\ (flag.current_state = "Installed" \/ flag.marked_install)
        THEN info \o " but " \o Bytes(Digits(version))
                  \o " is to be installed"
        ELSE info \o " but is not installable"

\* str.join
RECURSIVE JoinWith(_, _)
JoinWith(divider, strings) ==
    IF strings = << >> THEN ""
    ELSE IF Len(strings) = 1 THEN Head(strings)
    ELSE Head(strings) \o divider \o JoinWith(divider, Tail(strings))

\* " " * n
RECURSIVE Spaces(_)
Spaces(n) == IF n = 0 THEN "" ELSE " " \o Spaces(n - 1)

\* lines 553-557: the line of one dependency
unmet_line(st, package, dep_type, dependency) ==
    LET relation_infos ==
            [ i \in DOMAIN dependency |->
                get_unmet_relation_info(st, dependency[i]) ]
        info == "  " \o package \o ": " \o dep_type \o ": "
        or_divider == " or\n" \o Spaces(Len(info))
    IN  info \o JoinWith(or_divider, relation_infos)

\* lines 548-557: the lines of the dependencies of one type
RECURSIVE unmet_lines(_, _, _, _)
unmet_lines(st, package, dep_type, rest) ==
    IF rest = << >> THEN << >>
    ELSE (IF is_dependency_satisfied(package_flags(st), Head(rest),
                                     dep_type)
          THEN << >>
          ELSE << unmet_line(st, package, dep_type, Head(rest)) >>)
         \o unmet_lines(st, package, dep_type, Tail(rest))

\* lines 545-557: the lines of one package
RECURSIVE package_lines(_, _, _)
package_lines(st, package, dep_types) ==
    IF dep_types = << >> THEN << >>
    ELSE unmet_lines(st, package, Head(dep_types),
                     depends_list([package |-> package,
                                   ver |-> st.candidate[package]],
                                  Head(dep_types)))
         \o package_lines(st, package, Tail(dep_types))

\* lines 544-557
RECURSIVE all_package_lines(_, _)
all_package_lines(st, broken_packages) ==
    IF broken_packages = << >> THEN << >>
    ELSE package_lines(st, Head(broken_packages), DepTypes)
         \o all_package_lines(st, Tail(broken_packages))

\* AptFacade._get_unmet_dependency_info
get_unmet_dependency_info(st) ==
    LET broken_packages == get_broken_packages(st)
    IN  IF broken_packages = {} THEN ""
        ELSE JoinWith("\n",
                 << "The following packages have unmet dependencies:" >>
                 \o all_package_lines(st,
                        SelectSeq(PkgOrder,
                                  LAMBDA p : p \in broken_packages)))

----------------------------------------------------------------------------
(* lines 652-681: the commit *)

\* what dpkg does with the changes of st, for the packages in done
Installed(st, done) ==
    [ p \in Pkgs |->
        IF p \notin done THEN dpkg_installed[p]
        ELSE IF st.mode[p] = "install" THEN st.candidate[p]
        ELSE IF st.mode[p] = "delete" THEN 0
        ELSE dpkg_installed[p] ]

\* a removed package loses its selection
Held(st, hold, done) == hold \ { p \in done : st.mode[p] = "delete" }

\* dpkg configures a package only if its dependencies are installed, so a
\* commit that leaves one of its installs without them does not succeed
\* (removals are forced through)
Configurable(st) ==
    \A p \in get_changes(st) :
        st.mode[p] = "install" =>
            \A d \in Depends(p) : Installed(st, get_changes(st))[d] # 0

----------------------------------------------------------------------------
(* AptFacade: the operations *)

ClearOutcome ==
    /\ result' = "-"
    /\ error_text' = ""
    /\ error_names' = {}
    /\ error_packages' = {}
    /\ calls' = {}
    /\ planned' = {}
    /\ committed' = {}
    /\ dpkg_exited' = "-"
    /\ result_text' = << >>
    /\ error_report' = ""

\* a call that is neither perform_changes nor reset_marks
NoOutcome ==
    /\ ClearOutcome
    /\ reset_after' = "-"

Step(adapter) ==
    /\ facade = adapter
    /\ ops < MaxOps
    /\ ops' = ops + 1
    /\ UNCHANGED << facade, skelvars, channelvars, depvars, brokervars,
                    stdiovars >>

\* a mark is queued only while a later call can still act on it
MarkStep(adapter) ==
    /\ ops + 1 < MaxOps
    /\ Step(adapter)

\* no skeleton is being built by hand
SkeletonIdle ==
    /\ skeleton = [ i \in {1, 2} |-> PackageSkeleton(DEB_PACKAGE, << >>, << >>) ]
    /\ added = [ i \in {1, 2} |-> << >> ]
    /\ built = [ i \in {1, 2} |-> << >> ]
    /\ digest = [ i \in {1, 2} |-> << >> ]

\* the state of the other adapter
SmartIdle ==
    /\ marks = [ pkg \in {} |-> "" ]
    /\ smart_installed = {}
    /\ smart_result = "-"
    /\ smart_missing = {}
    /\ smart_calls = {}
    /\ smart_changeset = {}

\* _is_dependency_satisfied is not looked at on its own
DependencyIdle == dep_flags = NoEntries

\* BrokerServer.__init__, lines 77-90: no client, no connector, nothing
\* called yet
BrokerIdle ==
    /\ registered_clients = NoEntries
    /\ connectors = NoEntries
    /\ connecting = {}
    /\ created = 0
    /\ connected = {}
    /\ event_reached = {}
    /\ delivering = << >>
    /\ exchanger_sent = << >>
    /\ delivered = << >>
    /\ exiting = NoEntries
    /\ clients_stopped = [state |-> "-", by |-> "-"]
    /\ call_later = << >>
    /\ event_handlers = {}
    /\ listen_calls = << >>
    /\ running = << >>
    /\ deferred_fired = << >>
    /\ handler_errors = 0
    /\ first_event = << >>

\* what stdout and stderr of the process may be bound to
Targets == {"tty", "journal", "/dev/null"}

\* the descriptors of the process when the facade is constructed: 0, 1 and
\* 2 are open, and some of the next ones may be
DescriptorTables ==
    { [ n \in {0, 1, 2} \cup open |->
          IF n = 1 THEN out ELSE IF n = 2 THEN err
          ELSE IF n = 0 THEN "tty" ELSE "socket" ] :
        out \in Targets, err \in Targets, open \in SUBSET {3, 4} }

NoFrame ==
    [ pc |-> "-", fd |-> 0, old_stdout |-> 0, old_stderr |-> 0,
      install_output_path |-> "", stdout |-> "", stderr |-> "",
      raised |-> "", dpkg_exited |-> "-" ]

\* the descriptors are followed in the commit section only
StdioIdle ==
    /\ fds \in IF facade = "stdio" THEN DescriptorTables ELSE { NoEntries }
    /\ tmp_files = {}
    /\ commit_frame = NoFrame

AptIdle ==
    /\ BrokerIdle
    /\ StdioIdle
    /\ version_installs = << >>
    /\ version_removals = << >>
    /\ version_hold_creations = << >>
    /\ version_hold_removals = << >>
    /\ global_upgrade = FALSE
    /\ hash2pkg = NoEntries
    /\ pkg2hash = NoEntries
    /\ channels_loaded = FALSE
    /\ reload_result = "-"
    /\ reloads = 0
    /\ once_indexed = {}
    /\ sources_list = None
    /\ first_added = << >>
    /\ smart_channels = NoEntries
    /\ reset_after = "-"
    /\ ever_reloaded = FALSE
    /\ ensure_result = "-"
    /\ dep_checked = << >>
    /\ result = "-"
    /\ error_text = ""
    /\ error_names = {}
    /\ error_packages = {}
    /\ calls = {}
    /\ planned = {}
    /\ committed = {}
    /\ dpkg_exited = "-"
    /\ result_text = << >>
    /\ error_report = ""
    /\ environ = "inherited"
    /\ dpkg_options = {}

\* AptFacade.__init__ on any host: the cache is opened, nothing is queued
AptInit ==
    /\ facade = "apt"
    /\ AptIdle
    /\ DependencyIdle
    /\ dpkg_installed \in [Pkgs -> {0, 1, 2}]
    /\ \A p \in Pkgs : dpkg_installed[p] \in PkgVers(p) \cup {0}
    /\ dpkg_hold \in SUBSET { p \in Pkgs : dpkg_installed[p] # 0 }
    /\ cache_installed = dpkg_installed
    /\ cache_hold = dpkg_hold
    /\ candidate = DefaultCandidate
    /\ mode = DefaultMode
    /\ cache_packages = AllVersions
    /\ SmartIdle
    /\ SkeletonIdle
    /\ ops = 0

mark_install(version) ==
    /\ MarkStep("apt")
    /\ version_installs' = Append(version_installs, version)
    /\ NoOutcome
    /\ UNCHANGED << version_removals, version_hold_creations,
                    version_hold_removals, global_upgrade, catalog, dpkg,
                    cache, depcache, smartvars, process >>

mark_global_upgrade ==
    /\ MarkStep("apt")
    /\ global_upgrade' = TRUE
    /\ NoOutcome
    /\ UNCHANGED << version_installs, version_removals,
                    version_hold_creations, version_hold_removals, catalog,
                    dpkg, cache, depcache, smartvars, process >>

mark_remove(version) ==
    /\ MarkStep("apt")
    /\ version_removals' = Append(version_removals, version)
    /\ NoOutcome
    /\ UNCHANGED << version_installs, version_hold_creations,
                    version_hold_removals, global_upgrade, catalog, dpkg,
                    cache, depcache, smartvars, process >>

mark_create_hold(version) ==
    /\ MarkStep("apt")
    /\ version_hold_creations' = Append(version_hold_creations, version)
    /\ NoOutcome
    /\ UNCHANGED << version_installs, version_removals,
                    version_hold_removals, global_upgrade, catalog, dpkg,
                    cache, depcache, smartvars, process >>

mark_remove_hold(version) ==
    /\ MarkStep("apt")
    /\ version_hold_removals' = Append(version_hold_removals, version)
    /\ NoOutcome
    /\ UNCHANGED << version_installs, version_removals,
                    version_hold_creations, global_upgrade, catalog, dpkg,
                    cache, depcache, smartvars, process >>

\* faulty variant: the list of hold removals is left as it is
reset_marks_keeping_hold_removals ==
    /\ Step("apt")
    /\ version_installs' = << >>
    /\ version_removals' = << >>
    /\ version_hold_creations' = << >>
    /\ global_upgrade' = FALSE
    /\ candidate' = DefaultCandidate
    /\ mode' = DefaultMode
    /\ ClearOutcome
    /\ reset_after' = (IF result = "-" THEN "reset" ELSE result)
    /\ UNCHANGED << version_hold_removals, catalog, dpkg, cache, smartvars,
                    process >>

\* reset_marks: the four lists, the flag, and Cache.clear (depcache.init)
reset_marks ==
    /\ Step("apt")
    /\ version_installs' = << >>
    /\ version_removals' = << >>
    /\ version_hold_removals' = << >>
    /\ version_hold_creations' = << >>
    /\ global_upgrade' = FALSE
    /\ candidate' = DefaultCandidate
    /\ mode' = DefaultMode
    /\ ClearOutcome
    /\ reset_after' = (IF result = "-" THEN "reset" ELSE result)
    /\ UNCHANGED << catalog, dpkg, cache, smartvars, process >>

\* the versions of a cache in the order the loops of reload_channels meet
\* them mid-way through a run of reloads: not the same order every time
cache_versions_unstable(found) ==
    LET versions == SelectSeq(CacheOrder, LAMBDA version : version \in found)
    IN  IF ops % 2 = 0 THEN versions
        ELSE [ k \in 1..Len(versions) |-> versions[Len(versions) + 1 - k] ]

\* the versions of a cache in the order the loops of reload_channels meet
\* them: the order of the cache, the same on every pass over it
cache_versions(found) ==
    SelectSeq(CacheOrder, LAMBDA version : version \in found)

\* AptFacade._is_main_architecture
is_main_architecture(package) ==
    package_name(package) = package_shortname(package)

\* a dict that is left as it is
not_cleared(entries) == entries

\* dict.clear
cleared(entries) == NoEntries

\* the key of a version in AptFacade._pkg2hash: (package, version)
apt_key(version) == << version.package, version >>

\* the loop of AptFacade.reload_channels over the versions still to come
RECURSIVE apt_index(_, _)
apt_index(index, versions) ==
    IF versions = << >> THEN index
    ELSE LET version == Head(versions)
             hash == apt_hash[version]
         IN  IF ~is_main_architecture(version.package)
             THEN apt_index(index, Tail(versions))
             ELSE apt_index(
                    [ pkg2hash |-> (apt_key(version) :> hash) @@ index.pkg2hash,
                      hash2pkg |-> (hash :> version) @@ index.hash2pkg ],
                    Tail(versions))

\* the loop of SmartFacade.reload_channels over get_packages()
RECURSIVE smart_index(_, _)
smart_index(index, pkgs) ==
    IF pkgs = << >> THEN index
    ELSE LET pkg == Head(pkgs)
             hash == smart_hash[pkg]
         IN  smart_index(
               [ hash2pkg |-> (hash :> pkg) @@ index.hash2pkg,
                 pkg2hash |-> (pkg :> hash) @@ index.pkg2hash ],
               Tail(pkgs))

\* a reload that returned: one more in a row if the one before returned too
\* and held the same versions; what it indexed is remembered
Reloaded(indexed) ==
    /\ once_indexed' = once_indexed \cup indexed
    /\ ever_reloaded' = TRUE
    /\ reload_result' = "None"
    /\ reloads' = IF reload_result = "None" /\ cache_packages' = cache_packages
                  THEN (IF reloads < 2 THEN reloads + 1 ELSE 2)
                  ELSE 1

\* Cache.open: re-reads the dpkg database and the package lists, which hold
\* the versions found
cache_open(found) ==
    /\ cache_installed' = dpkg_installed
    /\ cache_hold' = dpkg_hold
    /\ candidate' = DefaultCandidate
    /\ mode' = DefaultMode
    /\ cache_packages' = found

\* the body of reload_channels, returning (without refetching, or after an
\* update that succeeded): the cache is opened and the index is rebuilt
\* from it
reload_returns(found) ==
    /\ cache_open(found)
    /\ LET index == apt_index([ pkg2hash |-> cleared(pkg2hash),
                                hash2pkg |-> cleared(hash2pkg) ],
                              cache_versions(found))
       IN  /\ pkg2hash' = index.pkg2hash
           /\ hash2pkg' = index.hash2pkg
    /\ channels_loaded' = TRUE
    /\ Reloaded({ key[2] : key \in DOMAIN pkg2hash' })
    /\ NoOutcome
    /\ UNCHANGED << queue, dpkg, smartvars, process >>

\* the body of reload_channels with refetch_package_index or
\* force_reload_binaries when Cache.update raises FetchFailedException:
\* ChannelError, after the cache was opened and before the index is touched
reload_fetch_fails(found) ==
    /\ cache_open(found)
    /\ reload_result' = "ChannelError"
    /\ reloads' = 0
    /\ NoOutcome
    /\ UNCHANGED << hash2pkg, pkg2hash, channels_loaded, once_indexed,
                    ever_reloaded, queue, dpkg, smartvars, process >>

\* reload_channels called by the user of the facade
reload_channels(found) ==
    /\ Step("apt")
    /\ reload_returns(found)
    /\ UNCHANGED ensure_result

reload_channels_fetch_failed(found) ==
    /\ Step("apt")
    /\ reload_fetch_fails(found)
    /\ UNCHANGED ensure_result

\* AptFacade.ensure_channels_reloaded: nothing to do once _channels_loaded
ensure_channels_reloaded_skips ==
    /\ Step("apt")
    /\ channels_loaded
    /\ ensure_result' = "skipped"
    /\ NoOutcome
    /\ UNCHANGED << hash2pkg, pkg2hash, channels_loaded, cache_packages,
                    reload_result, reloads, once_indexed, ever_reloaded,
                    queue, dpkg, cache, depcache, smartvars, process >>

\* AptFacade.ensure_channels_reloaded: reload_channels is called and returns
ensure_channels_reloaded(found) ==
    /\ Step("apt")
    /\ ~channels_loaded
    /\ reload_returns(found)
    /\ ensure_result' = "None"

\* AptFacade.ensure_channels_reloaded: the ChannelError of reload_channels
\* goes through
ensure_channels_reloaded_fetch_failed(found) ==
    /\ Step("apt")
    /\ ~channels_loaded
    /\ reload_fetch_fails(found)
    /\ ensure_result' = "ChannelError"

\* AptFacade.get_package_hash
get_package_hash(version) ==
    IF apt_key(version) \in DOMAIN pkg2hash
    THEN << pkg2hash[apt_key(version)] >> ELSE None

\* get_package_hashes, of either adapter: the values of _pkg2hash
get_package_hashes == Range(pkg2hash)

\* get_package_by_hash, of either adapter
get_package_by_hash(hash) ==
    IF hash \in DOMAIN hash2pkg THEN << hash2pkg[hash] >> ELSE None

----------------------------------------------------------------------------
(* AptFacade.perform_changes: one action per way out of the method *)

Return(value, text, names, packages, called, plan, done) ==
    /\ result' = value
    /\ error_text' = text
    /\ error_names' = names
    /\ error_packages' = packages
    /\ calls' = called
    /\ planned' = plan
    /\ committed' = done

\* lines 565-572: the front ends are silenced and dpkg keeps old conffiles
noninteractive ==
    /\ environ' = "noninteractive"
    /\ dpkg_options' = {"--force-confold"}

\* the method leaves before line 652: no install progress, nothing captured
Unattempted ==
    /\ dpkg_exited' = "-"
    /\ result_text' = << >>

\* the same, and the resolver did not fail
NoCommit ==
    /\ Unattempted
    /\ error_report' = ""

\* LandscapeInstallProgress.dpkg_exited: None until wait_child has run, then
\* os.WIFEXITED of dpkg's wait status
DpkgExited == {"None", "True", "False"}

\* faulty variant: only an explicit False counts as an unclean exit
dpkg_not_exited_only_false(exited) == exited = "False"

\* line 666: not install_progress.dpkg_exited
dpkg_not_exited(exited) == exited # "True"

\* lines 669-670, 675-676: what was captured while the commit ran; the text
\* of a TransactionError raised at line 671 is error_text followed by it
Captured(exited) ==
    /\ dpkg_exited' = exited
    /\ result_text' = << "fetch_output", "install_output" >>
    /\ error_report' = ""

\* the marks of st stay in the depcache when the method returns or raises
Leave(st) ==
    /\ candidate' = st.candidate
    /\ mode' = st.mode

\* faulty variant: the call empties the queue as it goes
PerformFrame_clearing_queue ==
    /\ Step("apt")
    /\ version_installs' = << >>
    /\ version_removals' = << >>
    /\ version_hold_creations' = << >>
    /\ version_hold_removals' = << >>
    /\ global_upgrade' = FALSE
    /\ noninteractive
    /\ UNCHANGED << catalog, cache, smartvars, reset_after >>

\* lines 565-572 are run by every call; no line of perform_changes assigns
\* to the queue, the index or the cache snapshot
PerformFrame ==
    /\ Step("apt")
    /\ noninteractive
    /\ UNCHANGED << queue, catalog, cache, smartvars, reset_after >>

hold_calls ==
    (IF version_hold_creations # << >> THEN {"set_package_hold"} ELSE {})
    \cup (IF version_hold_removals # << >> THEN {"remove_package_hold"} ELSE {})

mark_calls ==
    {"ProblemResolver", "get_broken_packages"}
    \cup (IF version_installs # << >> THEN {"mark_install"} ELSE {})
    \cup (IF global_upgrade THEN {"upgrade"} ELSE {})
    \cup (IF \E v \in Range(version_removals) : v.package \notin package_upgrades
          THEN {"mark_delete"} ELSE {})

resolve_calls ==
    IF now_broken_packages # already_broken_packages THEN {"resolve"} ELSE {}

\* lines 584-586
perform_nothing_queued ==
    /\ PerformFrame
    /\ NoCommit
    /\ nothing_queued
    /\ Return("None", "", {}, {}, {}, {}, {})
    /\ UNCHANGED << dpkg, depcache >>

\* lines 587-596
perform_not_installed ==
    /\ PerformFrame
    /\ NoCommit
    /\ ~nothing_queued
    /\ hold_changes # << >>
    /\ not_installed # {}
    /\ Return("TransactionError", "not installed",
              { v.package : v \in not_installed }, {}, {}, {}, {})
    /\ UNCHANGED << dpkg, depcache >>

\* lines 598-605 passed
holds_done ==
    /\ ~nothing_queued
    /\ hold_changes # << >> => not_installed = {}

\* lines 605, 682
perform_holds_only ==
    /\ PerformFrame
    /\ NoCommit
    /\ holds_done
    /\ ~(version_changes # << >> \/ global_upgrade)
    /\ dpkg_hold' = holds_changed
    /\ Return("Package holds successfully changed.", "", {}, {},
              hold_calls, {}, {})
    /\ UNCHANGED << dpkg_installed, depcache >>

\* line 606 entered
version_phase ==
    /\ holds_done
    /\ version_changes # << >> \/ global_upgrade

\* lines 638-641
perform_held ==
    /\ PerformFrame
    /\ NoCommit
    /\ version_phase
    /\ held_package_names # {}
    /\ dpkg_hold' = holds_changed
    /\ Leave(marked)
    /\ Return("TransactionError", "held", held_package_names, {},
              hold_calls \cup mark_calls, {}, {})
    /\ UNCHANGED dpkg_installed

\* lines 644-649: resolve raises SystemError
perform_unresolved ==
    /\ PerformFrame
    /\ Unattempted
    /\ error_report' = "\n" \o get_unmet_dependency_info(marked)
    /\ version_phase
    /\ held_package_names = {}
    /\ now_broken_packages # already_broken_packages
    /\ dpkg_hold' = holds_changed
    /\ Leave(marked)
    /\ Return("TransactionError", "unresolved", {}, {},
              hold_calls \cup mark_calls \cup {"resolve"}, {}, {})
    /\ UNCHANGED dpkg_installed

\* line 650 reached with the depcache in state st
checking(st) ==
    /\ version_phase
    /\ held_package_names = {}
    /\ st \in resolved

\* lines 490-493
perform_dependency_error ==
    /\ PerformFrame
    /\ NoCommit
    /\ \E st \in resolved :
         /\ checking(st)
         /\ dependencies(st, version_changes) # {}
         /\ Leave(st)
         /\ Return("DependencyError", "", {},
                   dependencies(st, version_changes),
                   hold_calls \cup mark_calls \cup resolve_calls,
                   versions_to_be_changed(st), {})
    /\ dpkg_hold' = holds_changed
    /\ UNCHANGED dpkg_installed

\* lines 494, 650-651
perform_nothing_to_do ==
    /\ PerformFrame
    /\ NoCommit
    /\ \E st \in resolved :
         /\ checking(st)
         /\ dependencies(st, version_changes) = {}
         /\ versions_to_be_changed(st) = {}
         /\ Leave(st)
         /\ Return("None", "", {}, {},
                   hold_calls \cup mark_calls \cup resolve_calls, {}, {})
    /\ dpkg_hold' = holds_changed
    /\ UNCHANGED dpkg_installed

\* line 652 reached with the depcache in state st
committing(st) ==
    /\ checking(st)
    /\ dependencies(st, version_changes) = {}
    /\ versions_to_be_changed(st) # {}

commit_calls == hold_calls \cup mark_calls \cup resolve_calls \cup {"commit"}

\* lines 663-666, 675-676: commit returns and dpkg exited
perform_commit ==
    /\ PerformFrame
    /\ \E st \in resolved :
         /\ committing(st)
         /\ Configurable(st)
         /\ Leave(st)
         /\ dpkg_installed' = Installed(st, get_changes(st))
         /\ dpkg_hold' = Held(st, holds_changed, get_changes(st))
         /\ \E exited \in DpkgExited :
              ~dpkg_not_exited(exited) /\ Captured(exited)
         /\ Return("log", "", {}, {}, commit_calls,
                   versions_to_be_changed(st), versions_to_be_changed(st))

\* lines 663, 668-673: commit raises SystemError, part of the plan applied
perform_commit_error ==
    /\ PerformFrame
    /\ \E st \in resolved :
         /\ committing(st)
         /\ Leave(st)
         /\ \E done \in SUBSET get_changes(st) :
              /\ done # get_changes(st)
              /\ \E exited \in DpkgExited : Captured(exited)
              /\ dpkg_installed' = Installed(st, done)
              /\ dpkg_hold' = Held(st, holds_changed, done)
              /\ Return("TransactionError", "commit", {}, {}, commit_calls,
                        versions_to_be_changed(st),
                        UNION { get_changed_versions(st, p) : p \in done })

\* lines 666-667: commit returns but dpkg did not exit cleanly
perform_dpkg_not_exited ==
    /\ PerformFrame
    /\ \E st \in resolved :
         /\ committing(st)
         /\ Leave(st)
         /\ \E done \in SUBSET get_changes(st) :
              /\ \E exited \in DpkgExited :
                   dpkg_not_exited(exited) /\ Captured(exited)
              /\ dpkg_installed' = Installed(st, done)
              /\ dpkg_hold' = Held(st, holds_changed, done)
              /\ Return("TransactionError", "dpkg didn't exit cleanly.",
                        {}, {}, commit_calls, versions_to_be_changed(st),
                        UNION { get_changed_versions(st, p) : p \in done })

perform_changes ==
    \/ perform_nothing_queued
    \/ perform_not_installed
    \/ perform_holds_only
    \/ perform_held
    \/ perform_unresolved
    \/ perform_dependency_error
    \/ perform_nothing_to_do
    \/ perform_commit
    \/ perform_commit_error
    \/ perform_dpkg_not_exited

AptNext ==
    \/ \E version \in AllVersions : mark_install(version)
    \/ \E version \in AllVersions : mark_remove(version)
    \/ \E version \in AllVersions : mark_create_hold(version)
    \/ \E version \in AllVersions : mark_remove_hold(version)
    \/ mark_global_upgrade
    \/ reset_marks
    \/ reload_channels(AllVersions)
    \/ perform_changes

----------------------------------------------------------------------------
(* SmartFacade: every version is a Smart package of its own *)

\* SmartFacade.is_package_installed
smart_is_package_installed(pkg) == pkg \in smart_installed

\* self._marks[pkg] = oper
SetMark(pkg, oper) ==
    [ q \in DOMAIN marks \cup {pkg} |-> IF q = pkg THEN oper ELSE marks[q] ]

SmartNoOutcome ==
    /\ smart_result' = "-"
    /\ smart_missing' = {}
    /\ smart_calls' = {}
    /\ smart_changeset' = {}

smart_mark_install(pkg) ==
    /\ MarkStep("smart")
    /\ marks' = SetMark(pkg, "INSTALL")
    /\ SmartNoOutcome
    /\ UNCHANGED << smart_installed, aptvars >>

smart_mark_remove(pkg) ==
    /\ MarkStep("smart")
    /\ marks' = SetMark(pkg, "REMOVE")
    /\ SmartNoOutcome
    /\ UNCHANGED << smart_installed, aptvars >>

smart_mark_upgrade(pkg) ==
    /\ MarkStep("smart")
    /\ marks' = SetMark(pkg, "UPGRADE")
    /\ SmartNoOutcome
    /\ UNCHANGED << smart_installed, aptvars >>

\* mark_global_upgrade: mark_upgrade of every installed package
smart_mark_global_upgrade ==
    /\ MarkStep("smart")
    /\ marks' = [ q \in DOMAIN marks \cup smart_installed |->
                    IF smart_is_package_installed(q) THEN "UPGRADE"
                    ELSE marks[q] ]
    /\ SmartNoOutcome
    /\ UNCHANGED << smart_installed, aptvars >>

smart_reset_marks ==
    /\ Step("smart")
    /\ marks' = [ pkg \in {} |-> "" ]
    /\ SmartNoOutcome
    /\ UNCHANGED << smart_installed, aptvars >>

\* lines 903-916: the policy handed to the transaction
policy ==
    IF \A pkg \in DOMAIN marks : marks[pkg] = "REMOVE" THEN "PolicyRemove"
    ELSE IF \E pkg \in DOMAIN marks : marks[pkg] = "UPGRADE" THEN "PolicyUpgrade"
    ELSE "PolicyInstall"

\* lines 898-916: every call builds, fills and configures a Transaction
transaction_calls ==
    {"Transaction", "setPolicy", "run"}
    \cup (IF DOMAIN marks # {} THEN {"enqueue"} ELSE {})

\* Transaction.run and getChangeSet: an opaque solver.  A changeset installs
\* packages that are not installed and removes installed ones; a transaction
\* with nothing enqueued changes nothing.
ChangeSets ==
    IF DOMAIN marks = {} THEN { [ pkg \in {} |-> "" ] }
    ELSE { [ pkg \in S |->
               IF smart_is_package_installed(pkg) THEN "REMOVE" ELSE "INSTALL" ] :
           S \in SUBSET AllVersions }

\* self._marks.get(pkg)
MarkOf(pkg) == IF pkg \in DOMAIN marks THEN marks[pkg] ELSE "None"

\* faulty variant: only an absent mark counts, a different one passes
missing_absent_only(changeset) ==
    { pkg \in DOMAIN changeset : pkg \notin DOMAIN marks }

\* lines 927-930
missing(changeset) ==
    { pkg \in DOMAIN changeset : MarkOf(pkg) # changeset[pkg] }

\* commitChangeSet applied to the packages in done
SmartInstalled(changeset, done) ==
    (smart_installed \ { pkg \in done : changeset[pkg] = "REMOVE" })
    \cup { pkg \in done : changeset[pkg] = "INSTALL" }

SmartReturn(value, miss, called, changeset) ==
    /\ smart_result' = value
    /\ smart_missing' = miss
    /\ smart_calls' = called
    /\ smart_changeset' = changeset

SmartFrame ==
    /\ Step("smart")
    /\ UNCHANGED << marks, aptvars >>

\* lines 918-921: transaction.run raises Failed
smart_perform_failed ==
    /\ SmartFrame
    /\ DOMAIN marks # {}
    /\ SmartReturn("TransactionError", {}, transaction_calls, {})
    /\ UNCHANGED smart_installed

\* lines 924-925
smart_perform_nothing_to_do ==
    /\ SmartFrame
    /\ \E changeset \in ChangeSets :
         /\ DOMAIN changeset = {}
         /\ SmartReturn("None", {}, transaction_calls, {})
    /\ UNCHANGED smart_installed

\* lines 927-932
smart_perform_dependency_error ==
    /\ SmartFrame
    /\ \E changeset \in ChangeSets :
         /\ DOMAIN changeset # {}
         /\ missing(changeset) # {}
         /\ SmartReturn("DependencyError", missing(changeset),
                        transaction_calls,
                        { << pkg, changeset[pkg] >> : pkg \in DOMAIN changeset })
    /\ UNCHANGED smart_installed

smart_committing(changeset) ==
    /\ DOMAIN changeset # {}
    /\ missing(changeset) = {}

\* lines 934-946, the output returned
smart_perform_commit ==
    /\ SmartFrame
    /\ \E changeset \in ChangeSets :
         /\ smart_committing(changeset)
         /\ smart_installed' = SmartInstalled(changeset, DOMAIN changeset)
         /\ SmartReturn("output", {},
                        transaction_calls \cup {"commitChangeSet"},
                        { << pkg, changeset[pkg] >> : pkg \in DOMAIN changeset })

\* lines 934-937: commitChangeSet raises smart.Error
smart_perform_commit_error ==
    /\ SmartFrame
    /\ \E changeset \in ChangeSets :
         /\ smart_committing(changeset)
         /\ \E done \in SUBSET DOMAIN changeset :
              /\ done # DOMAIN changeset
              /\ smart_installed' = SmartInstalled(changeset, done)
         /\ SmartReturn("TransactionError", {},
                        transaction_calls \cup {"commitChangeSet"},
                        { << pkg, changeset[pkg] >> : pkg \in DOMAIN changeset })

\* lines 939-945: the interface reports a failure after the commit returned
smart_perform_has_failed ==
    /\ SmartFrame
    /\ \E changeset \in ChangeSets :
         /\ smart_committing(changeset)
         /\ \E done \in SUBSET DOMAIN changeset :
              smart_installed' = SmartInstalled(changeset, done)
         /\ SmartReturn("SmartError", {},
                        transaction_calls \cup {"commitChangeSet"},
                        { << pkg, changeset[pkg] >> : pkg \in DOMAIN changeset })

smart_perform_changes ==
    \/ smart_perform_failed
    \/ smart_perform_nothing_to_do
    \/ smart_perform_dependency_error
    \/ smart_perform_commit
    \/ smart_perform_commit_error
    \/ smart_perform_has_failed

\* SmartFacade on any host, nothing marked
SmartInit ==
    /\ facade = "smart"
    /\ AptIdle
    /\ DependencyIdle
    /\ dpkg_installed = [ p \in Pkgs |-> 0 ]
    /\ dpkg_hold = {}
    /\ cache_installed = dpkg_installed
    /\ cache_hold = dpkg_hold
    /\ candidate = DefaultCandidate
    /\ mode = DefaultMode
    /\ marks = [ pkg \in {} |-> "" ]
    /\ smart_installed \in SUBSET AllVersions
    /\ \A v, w \in smart_installed : v.package = w.package => v = w
    /\ smart_result = "-"
    /\ smart_missing = {}
    /\ smart_calls = {}
    /\ smart_changeset = {}
    /\ cache_packages = AllVersions
    /\ SkeletonIdle
    /\ ops = 0

SmartNext ==
    \/ \E pkg \in AllVersions : smart_mark_install(pkg)
    \/ \E pkg \in AllVersions : smart_mark_remove(pkg)
    \/ \E pkg \in AllVersions : smart_mark_upgrade(pkg)
    \/ smart_mark_global_upgrade
    \/ smart_reset_marks
    \/ smart_perform_changes

----------------------------------------------------------------------------
(* PackageSkeleton: two skeletons, filled by hand or by the builder *)

\* the relations a skeleton may hold, and the inputs of add_relation
MaxRelations == 2

SkelNames == { << "a" >>, << "b" >> }

SkelKinds == { DEB_REQUIRES, DEB_PROVIDES }

SkelInfos == { << "a" >>, << "b" >> }


\* a step on the skeletons: the facades are not involved
SkeletonFrame(kinds) ==
    /\ facade \in kinds
    /\ UNCHANGED << aptvars, smartvars, channelvars, depvars, brokervars,
                    stdiovars,
                    facade, ops >>

\* PackageSkeleton.add_relation
add_relation(i, type, info) ==
    /\ SkeletonFrame({"skeleton"})
    /\ Len(skeleton[i].relations) < MaxRelations
    /\ skeleton' = [skeleton EXCEPT ![i].relations = Append(@, << type, info >>)]
    /\ added' = [added EXCEPT ![i] = Append(@, << type, info >>)]
    /\ built' = [built EXCEPT ![i] = << >>]
    /\ digest' = [digest EXCEPT ![i] = << >>]

\* PackageSkeleton.get_hash: sorts the relations in place
\* (the skeleton is read before the sort shows: the digest is that of the
\* relations the call finds)
call_get_hash(i) ==
    /\ SkeletonFrame({"skeleton", "serialization"})
    /\ skeleton' = [skeleton EXCEPT ![i] = sort_relations(@)]
    /\ digest' = [digest EXCEPT ![i] = << get_hash(skeleton[i]) >>]
    /\ UNCHANGED << added, built >>

\* AptFacade.get_package_skeleton
get_package_skeleton(i, version, with_info) ==
    /\ SkeletonFrame({"skeleton"})
    /\ skeleton' = [skeleton EXCEPT ![i] = apt_skeleton[version, with_info]]
    /\ added' = [added EXCEPT ![i] = skeleton'[i].relations]
    /\ built' = [built EXCEPT ![i] = << version, with_info, "apt" >>]
    /\ digest' = [digest EXCEPT ![i] = << >>]

\* SmartFacade.get_package_skeleton
smart_get_package_skeleton(i, pkg, with_info) ==
    /\ SkeletonFrame({"skeleton"})
    /\ skeleton' = [skeleton EXCEPT ![i] = smart_skeleton[pkg, with_info]]
    /\ added' = [added EXCEPT ![i] = skeleton'[i].relations]
    /\ digest' = [digest EXCEPT ![i] = << >>]
    /\ built' = [built EXCEPT ![i] = << pkg, with_info, "smart" >>]

\* the facades as the skeleton specifications leave them
FacadesIdle ==
    /\ AptIdle
    /\ DependencyIdle
    /\ dpkg_installed = [ p \in Pkgs |-> 0 ]
    /\ dpkg_hold = {}
    /\ cache_installed = dpkg_installed
    /\ cache_hold = dpkg_hold
    /\ candidate = DefaultCandidate
    /\ mode = DefaultMode
    /\ SmartIdle
    /\ ops = 0

\* two skeletons constructed, no relation added yet: the first is named
\* "a", the second has either name
SkeletonInit ==
    /\ facade = "skeleton"
    /\ FacadesIdle
    /\ cache_packages = AllVersions
    /\ \E name \in SkelNames :
         skeleton = [ i \in {1, 2} |->
                        PackageSkeleton(DEB_PACKAGE,
                                        IF i = 1 THEN << "a" >> ELSE name,
                                        << "1" >>) ]
    /\ added = [ i \in {1, 2} |-> << >> ]
    /\ built = [ i \in {1, 2} |-> << >> ]
    /\ digest = [ i \in {1, 2} |-> << >> ]

SkeletonNext ==
    \/ \E i \in {1, 2}, type \in SkelKinds, info \in SkelInfos :
         add_relation(i, type, info)
    \/ \E i \in {1, 2} : call_get_hash(i)
    \/ \E i \in {1, 2}, version \in CacheVersions, with_info \in BOOLEAN :
         get_package_skeleton(i, version, with_info)
    \/ \E i \in {1, 2}, pkg \in AllVersions, with_info \in BOOLEAN :
         smart_get_package_skeleton(i, pkg, with_info)

SkeletonSpec == SkeletonInit /\ [][SkeletonNext]_vars

\* the names and versions of the serialization check: every non-empty
\* string of at most MaxTextLen characters of the alphabet
MaxTextLen == 2

Alphabet == { "a", " ", "]" }

Texts ==
    UNION { [ 1..n -> Alphabet ] : n \in 1..MaxTextLen }

\* two skeletons constructed with any names and versions
SerializationInit ==
    /\ facade = "serialization"
    /\ FacadesIdle
    /\ cache_packages = AllVersions
    /\ skeleton \in [ {1, 2} ->
                        { PackageSkeleton(DEB_PACKAGE, name, version) :
                            name \in Texts, version \in Texts } ]
    /\ added = [ i \in {1, 2} |-> << >> ]
    /\ built = [ i \in {1, 2} |-> << >> ]
    /\ digest = [ i \in {1, 2} |-> << >> ]

SerializationNext == \E i \in {1, 2} : call_get_hash(i)

SerializationSpec == SerializationInit /\ [][SerializationNext]_vars

----------------------------------------------------------------------------
(* The catalog index: either facade, its channels reloaded again and again
   while the versions the channels offer come and go *)

\* SmartFacade.get_packages: every package of the cache is a DebPackage
smart_get_packages == cache_versions(cache_packages)

\* SmartFacade.get_package_hash
smart_get_package_hash(pkg) ==
    IF pkg \in DOMAIN pkg2hash THEN << pkg2hash[pkg] >> ELSE None

\* SmartFacade.reload_channels, returning: ctrl.reloadChannels loaded the
\* versions found, and the index is rebuilt from get_packages()
smart_reload_returns(found) ==
    /\ cache_packages' = found
    /\ LET index == smart_index([ hash2pkg |-> cleared(hash2pkg),
                                  pkg2hash |-> cleared(pkg2hash) ],
                                cache_versions(found))
       IN  /\ hash2pkg' = index.hash2pkg
           /\ pkg2hash' = index.pkg2hash
    /\ Reloaded(DOMAIN pkg2hash')
    /\ UNCHANGED << queue, dpkg, cache, depcache, outcome, process,
                    smartvars,
                    reset_after >>

\* SmartFacade.reload_channels when ctrl.reloadChannels raises smart.Error,
\* or returns false with caching NEVER: ChannelError before the index is
\* touched
smart_reload_fails ==
    /\ reload_result' = "ChannelError"
    /\ reloads' = 0
    /\ UNCHANGED << hash2pkg, pkg2hash, cache_packages, once_indexed,
                    ever_reloaded, queue, dpkg, cache, depcache, outcome,
                    process, smartvars,
                    reset_after >>

\* SmartFacade.reload_channels called by the user of the facade:
\* _channels_reloaded is not touched
smart_reload_channels(found) ==
    /\ Step("smart")
    /\ smart_reload_returns(found)
    /\ UNCHANGED << channels_loaded, ensure_result >>

smart_reload_channels_failed ==
    /\ Step("smart")
    /\ smart_reload_fails
    /\ UNCHANGED << channels_loaded, ensure_result >>

\* SmartFacade.ensure_channels_reloaded: nothing to do once
\* _channels_reloaded
smart_ensure_channels_reloaded_skips ==
    /\ Step("smart")
    /\ channels_loaded
    /\ ensure_result' = "skipped"
    /\ UNCHANGED << hash2pkg, pkg2hash, channels_loaded, cache_packages,
                    reload_result, reloads, once_indexed, ever_reloaded,
                    queue, dpkg, cache, depcache, outcome, process,
                    smartvars,
                    reset_after >>

\* SmartFacade.ensure_channels_reloaded: _channels_reloaded is set, then
\* reload_channels is called and returns
smart_ensure_channels_reloaded(found) ==
    /\ Step("smart")
    /\ ~channels_loaded
    /\ channels_loaded' = TRUE
    /\ smart_reload_returns(found)
    /\ ensure_result' = "None"

\* SmartFacade.ensure_channels_reloaded: _channels_reloaded is set, then the
\* ChannelError of reload_channels goes through
smart_ensure_channels_reloaded_failed ==
    /\ Step("smart")
    /\ ~channels_loaded
    /\ channels_loaded' = TRUE
    /\ smart_reload_fails
    /\ ensure_result' = "ChannelError"

\* the versions Smart may load: it keeps one package for the stanzas that
\* agree on name, version and relations, and has no foreign architecture
SmartVersions == AllVersions

\* a facade just constructed, on a host with nothing installed
IndexInit ==
    /\ facade \in {"apt", "smart"}
    /\ FacadesIdle
    /\ SkeletonIdle
    /\ cache_packages \in SUBSET (IF facade = "apt" THEN CacheVersions
                                  ELSE SmartVersions)

IndexNext ==
    \/ \E found \in SUBSET CacheVersions : reload_channels(found)
    \/ \E found \in SUBSET CacheVersions : reload_channels_fetch_failed(found)
    \/ \E found \in SUBSET SmartVersions : smart_reload_channels(found)
    \/ smart_reload_channels_failed
    \/ ensure_channels_reloaded_skips
    \/ \E found \in SUBSET CacheVersions : ensure_channels_reloaded(found)
    \/ \E found \in SUBSET CacheVersions :
         ensure_channels_reloaded_fetch_failed(found)
    \/ smart_ensure_channels_reloaded_skips
    \/ \E found \in SUBSET SmartVersions : smart_ensure_channels_reloaded(found)
    \/ smart_ensure_channels_reloaded_failed

IndexSpec == IndexInit /\ [][IndexNext]_vars

----------------------------------------------------------------------------
(* The channels of AptFacade: the internal sources list *)

\* the urls, the dist and the component lists add_channel_apt_deb is given
ChannelUrls == { << "u" >>, << "v" >> }

ChannelCodenames == { << "d" >>, << "d", " ", "m" >> }

ChannelComponents == { << >>, << << "m" >> >>, << << "m" >>, << "r" >> >> }

\* " ".join(components)
RECURSIVE JoinSpaces(_)
JoinSpaces(components) ==
    IF Len(components) = 1 THEN Head(components)
    ELSE Head(components) \o << " " >> \o JoinSpaces(Tail(components))

\* add_channel_apt_deb, lines 274-276
sources_line(url, codename, components) ==
    LET line == << "d", "e", "b", " " >> \o url \o << " " >> \o codename
    IN  IF components # << >> THEN line \o << " " >> \o JoinSpaces(components)
        ELSE line

\* content.split("\n")
RECURSIVE split(_)
split(content) ==
    IF \A k \in DOMAIN content : content[k] # "\n" THEN << content >>
    ELSE LET k == CHOOSE i \in DOMAIN content :
                    /\ content[i] = "\n"
                    /\ \A j \in 1..(i - 1) : content[j] # "\n"
         IN  << SubSeq(content, 1, k - 1) >>
             \o split(SubSeq(content, k + 1, Len(content)))

\* a line counts as present when the content has it somewhere
contains_line_anywhere(content, line) ==
    \E k \in 0..(Len(content) - Len(line)) :
        SubSeq(content, k + 1, k + Len(line)) = line

\* sources_line in current_content, line 279
contains_line(content, line) == line \in Range(split(content))

\* a call on the channels: the packages are not involved
ChannelStep ==
    /\ facade = "channels"
    /\ ops < MaxOps
    /\ ops' = ops + 1
    /\ UNCHANGED << aptvars, smartvars, skelvars, depvars, brokervars,
                    stdiovars,
                    facade >>

\* the lines given so far, with this one
Given(line) ==
    IF line \in Range(first_added) THEN first_added
    ELSE Append(first_added, line)

\* add_channel_apt_deb: the line is appended unless the file has it
add_channel_apt_deb(url, codename, components) ==
    LET line == sources_line(url, codename, components)
    IN  /\ ChannelStep
        /\ first_added' = Given(line)
        /\ UNCHANGED smart_channels
        /\ sources_list' =
              IF sources_list # None /\ contains_line(sources_list[1], line)
              THEN sources_list
              ELSE << (IF sources_list = None THEN << >> ELSE sources_list[1])
                      \o line \o << "\n" >> >>

\* clear_channels: the file is removed if there is one
clear_channels ==
    /\ ChannelStep
    /\ sources_list' = None
    /\ first_added' = << >>
    /\ UNCHANGED smart_channels

\* an AptFacade just constructed: no internal sources list yet
ChannelsInit ==
    /\ facade = "channels"
    /\ FacadesIdle
    /\ SkeletonIdle
    /\ cache_packages = AllVersions

ChannelsNext ==
    \/ \E url \in ChannelUrls, codename \in ChannelCodenames,
          components \in ChannelComponents :
         add_channel_apt_deb(url, codename, components)
    \/ clear_channels

ChannelsSpec == ChannelsInit /\ [][ChannelsNext]_vars

----------------------------------------------------------------------------
(* The channels of SmartFacade *)

\* a SmartFacade channel method is called
SmartChannelStep ==
    /\ facade = "smart-channels"
    /\ ops < MaxOps
    /\ ops' = ops + 1
    /\ UNCHANGED << aptvars, smartvars, skelvars, depvars, brokervars,
                    stdiovars, sources_list, first_added, facade >>

\* the directories add_channel_deb_dir is given
ChannelPaths == { << "p" >>, << "q" >> }

\* get_channels: the dict smart.sysconf holds
smart_get_channels == smart_channels

\* add_channel: channels.update({alias: channel}), and the dict is stored
smart_add_channel(alias, channel) ==
    /\ SmartChannelStep
    /\ smart_channels' =
         [ a \in DOMAIN smart_get_channels \cup {alias} |->
             IF a = alias THEN channel ELSE smart_get_channels[a] ]

\* add_channel_apt_deb: the alias is the codename
smart_add_channel_apt_deb(url, codename, components) ==
    smart_add_channel(codename,
                      [ baseurl |-> url, distribution |-> codename,
                        components |-> components, type |-> "apt-deb" ])

\* add_channel_deb_dir: the alias is the path
smart_add_channel_deb_dir(path) ==
    smart_add_channel(path, [ path |-> path, type |-> "deb-dir" ])

\* reset_channels
smart_reset_channels ==
    /\ SmartChannelStep
    /\ smart_channels' = NoEntries

\* clear_channels does nothing
smart_clear_channels ==
    /\ SmartChannelStep
    /\ UNCHANGED smart_channels

SmartChannelsInit ==
    /\ facade = "smart-channels"
    /\ FacadesIdle
    /\ SkeletonIdle
    /\ cache_packages = AllVersions

SmartChannelsNext ==
    \/ \E url \in ChannelUrls, codename \in ChannelCodenames,
          components \in ChannelComponents :
         smart_add_channel_apt_deb(url, codename, components)
    \/ \E path \in ChannelPaths : smart_add_channel_deb_dir(path)
    \/ smart_reset_channels
    \/ smart_clear_channels

SmartChannelsSpec == SmartChannelsInit /\ [][SmartChannelsNext]_vars

----------------------------------------------------------------------------
(* AptFacade._is_dependency_satisfied on its own *)

\* The number of alternatives of a dependency.
MaxAlternatives == 2

\* current_state of a package: installed, not installed, or removed with
\* its configuration files left
CurrentStates == {"Installed", "NotInstalled", "ConfigFiles"}

\* what a depcache can say of one package: only a package that is not
\* installed is marked for a new install, only one that is there for
\* deletion
PackageFlags ==
    { flag \in [ current_state : CurrentStates, marked_install : BOOLEAN,
                 marked_delete : BOOLEAN ] :
        /\ ~(flag.marked_install /\ flag.marked_delete)
        /\ flag.marked_install => flag.current_state # "Installed"
        /\ flag.marked_delete => flag.current_state # "NotInstalled" }

\* or_dep.all_targets(): the packages of the versions that meet one
\* alternative, as apt lists them
TargetLists == { << >>, << "b" >>, << "c" >>, << "b", "c" >> }

Alternatives ==
    { [ target_pkg |-> << "b" >>, target_ver |-> << >>, comp_type |-> << >>,
        all_targets |-> targets ] : targets \in TargetLists }

\* the dependencies of at most MaxAlternatives alternatives; one without
\* alternatives does not come out of apt
DependencyLists ==
    UNION { [ 1..n -> Alternatives ] : n \in 1..MaxAlternatives }

DependencyInit ==
    /\ facade = "dependency"
    /\ AptIdle
    /\ dpkg_installed = [ p \in Pkgs |-> 0 ]
    /\ dpkg_hold = {}
    /\ cache_installed = dpkg_installed
    /\ cache_hold = dpkg_hold
    /\ candidate = DefaultCandidate
    /\ mode = DefaultMode
    /\ cache_packages = AllVersions
    /\ SmartIdle
    /\ SkeletonIdle
    /\ ops = 0
    /\ dep_flags \in [ Pkgs -> PackageFlags ]

\* one call of _is_dependency_satisfied(dependency, dep_type), which is
\* not a call of the facade's interface
call_is_dependency_satisfied(dependency, dep_type) ==
    /\ facade = "dependency"
    /\ dep_checked' =
          << dependency, dep_type,
             is_dependency_satisfied(dep_flags, dependency, dep_type) >>
    /\ UNCHANGED << aptvars, smartvars, skelvars, channelvars, brokervars,
                    stdiovars,
                    dep_flags, facade, ops >>

DependencyNext ==
    \E dependency \in DependencyLists, dep_type \in Range(DepTypes) :
        call_is_dependency_satisfied(dependency, dep_type)

DependencySpec == DependencyInit /\ [][DependencyNext]_vars

----------------------------------------------------------------------------
(* landscape.broker.server: BrokerServer *)

\* the names clients register under
ClientNames == {"monitor", "manager"}

\* the registry of clients is followed with the event broadcasts, with the
\* message broadcasts, or with exit: the three work on the registry and on
\* nothing else in common
BrokerFacades == {"broker", "messages", "exit"}

\* a remote method of the broker is called
BrokerStep ==
    /\ facade \in BrokerFacades
    /\ ops < MaxOps
    /\ ops' = ops + 1
    /\ UNCHANGED << aptvars, smartvars, skelvars, channelvars, depvars,
                    stdiovars, facade >>

\* a deferred the broker waits on fires, or the reactor goes on
BrokerReply ==
    /\ facade \in BrokerFacades
    /\ UNCHANGED << aptvars, smartvars, skelvars, channelvars, depvars,
                    stdiovars, facade, ops >>

\* dict[key] = value
Put(dict, key, value) ==
    [ k \in DOMAIN dict \cup {key} |-> IF k = key THEN value ELSE dict[k] ]

\* get_clients, get_client, get_connectors, get_connector
get_clients == Range(registered_clients)

get_client(name) ==
    IF name \in DOMAIN registered_clients
    THEN << registered_clients[name] >> ELSE None

get_connectors == Range(connectors)

get_connector(name) ==
    IF get_client(name) # None /\ get_client(name)[1] \in DOMAIN connectors
    THEN << connectors[get_client(name)[1]] >> ELSE None

\* register_client, lines 121-127: a connector is created and its connect
\* started; the deferred of connect has not fired when the method returns
register_client(name) ==
    /\ BrokerStep
    /\ created' = created + 1
    /\ connecting' = connecting \cup {[name |-> name, connector |-> created']}
    /\ UNCHANGED << registered_clients, connectors, connected, event_reached,
                    messagevars, exitvars, listenvars >>

\* faulty variant: the name is registered, the connector is not kept
register_without_connector(name, remote_client, connector) ==
    /\ registered_clients' = Put(registered_clients, name, remote_client)
    /\ connectors' = connectors

\* register, lines 123-125, with the remote client connect has produced
register(name, remote_client, connector) ==
    /\ registered_clients' = Put(registered_clients, name, remote_client)
    /\ connectors' = Put(connectors, remote_client, connector)

\* the deferred of connect fires with a new remote client: line 128
connect_succeeded(pending) ==
    /\ BrokerReply
    /\ pending \in connecting
    /\ connecting' = connecting \ {pending}
    /\ register(pending.name, pending.connector, pending.connector)
    /\ connected' = connected \cup {pending.connector}
    /\ UNCHANGED << created, event_reached, messagevars, exitvars,
                    listenvars >>

\* the deferred of connect fires with a failure: register is not called
connect_failed(pending) ==
    /\ BrokerReply
    /\ pending \in connecting
    /\ connecting' = connecting \ {pending}
    /\ UNCHANGED << registered_clients, connectors, created, connected,
                    event_reached, messagevars, exitvars, listenvars >>

\* faulty variant: the event is fired on every client that asked to be
\* registered
fire_event_on_all_created == 1..created

\* broadcast_event, lines 58-61: fire_event on each of get_clients()
fire_event_on == get_clients

\* a method decorated with event is called (resynchronize,
\* impending_exchange, broker_reconnect, ...)
broadcast_event ==
    /\ BrokerStep
    /\ event_reached' = fire_event_on
    /\ UNCHANGED << registered_clients, connectors, connecting, created,
                    connected, messagevars, exitvars, listenvars >>

\* the messages of the server: a type, and an operation-id or none
Messages ==
    [ type : {"resynchronize", "change-packages"},
      opid : {None, << 7 >>} ]

\* faulty variant: the resynchronize message is answered like any other
unhandled_any_type(results, message) ==
    TRUE \notin results /\ message.opid # None

\* _message_delivered, lines 307-309
unhandled(results, message) ==
    /\ TRUE \notin results
    /\ message.opid # None
    /\ message.type # "resynchronize"

\* _message_delivered, lines 310-325: what the exchanger is asked to send
message_delivered(results, message) ==
    IF unhandled(results, message)
    THEN << [ message |-> [ type |-> "operation-result", status |-> "FAILED",
                            result_text |-> message.type,
                            opid |-> message.opid[1] ],
              urgent |-> TRUE ] >>
    ELSE << >>

\* the results of a broadcast are gathered
Gathered(message, results) ==
    /\ exchanger_sent' =
          exchanger_sent \o message_delivered(Range(results), message)
    /\ delivered' = Append(delivered, [ message |-> message,
                                        results |-> results ])
    /\ delivering' = << >>

\* broadcast_message, lines 294-298: message is called on each client;
\* with no client gatherResults fires at once
broadcast_message(message) ==
    /\ BrokerStep
    /\ delivering = << >>
    /\ IF get_clients = {}
       THEN Gathered(message, NoEntries)
       ELSE /\ delivering' = << [ message |-> message,
                                  awaiting |-> get_clients,
                                  results |-> NoEntries ] >>
            /\ UNCHANGED << exchanger_sent, delivered >>
    /\ UNCHANGED << registryvars, exitvars, listenvars >>

\* the deferred of one client.message fires with what the client returned
message_returned(client, value) ==
    /\ BrokerReply
    /\ delivering # << >>
    /\ client \in delivering[1].awaiting \ DOMAIN delivering[1].results
    /\ LET results == Put(delivering[1].results, client, value)
       IN  IF DOMAIN results = delivering[1].awaiting
           THEN Gathered(delivering[1].message, results)
           ELSE /\ delivering' = << [ delivering[1] EXCEPT !.results = results ] >>
                /\ UNCHANGED << exchanger_sent, delivered >>
    /\ UNCHANGED << registryvars, exitvars, listenvars >>

\* the deferred of one client.message fires with a failure: gatherResults
\* fires its errback and _message_delivered is not called
message_failed(client) ==
    /\ BrokerReply
    /\ delivering # << >>
    /\ client \in delivering[1].awaiting \ DOMAIN delivering[1].results
    /\ delivering' = << >>
    /\ UNCHANGED << exchanger_sent, delivered, registryvars, exitvars,
                    listenvars >>

\* faulty variant: the stop is scheduled only when the clients stopped
schedule_reactor_stop_on_success(state) ==
    IF state = "result" THEN Append(call_later, 1) ELSE call_later

\* schedule_reactor_stop, lines 230-238, added with addBoth at line 240
schedule_reactor_stop(state) == Append(call_later, 1)

\* the deferred of stop_clients fires, as a result or as a failure
Stopped(state) ==
    /\ clients_stopped' = [clients_stopped EXCEPT !.state = state]
    /\ call_later' = IF clients_stopped.by = "exit"
                     THEN schedule_reactor_stop(state) ELSE call_later

\* stop_clients, lines 167-175: exit is called on each client; gatherResults
\* of no deferred fires at once
TellClients(method) ==
    /\ clients_stopped.state # "pending"
    /\ exiting' = [ client \in get_clients |-> "pending" ]
    /\ clients_stopped' =
          [ state |-> IF get_clients = {} THEN "result" ELSE "pending",
            by |-> method ]
    /\ UNCHANGED << registryvars, messagevars, listenvars >>

stop_clients ==
    /\ BrokerStep
    /\ TellClients("stop_clients")
    /\ UNCHANGED call_later

\* exit, lines 228-240
exit ==
    /\ BrokerStep
    /\ TellClients("exit")
    /\ call_later' = IF get_clients = {}
                     THEN schedule_reactor_stop("result") ELSE call_later

\* the deferred of one client.exit fires with a result: gatherResults fires
\* its callback when it is the last one
exit_returned(client) ==
    /\ BrokerReply
    /\ client \in DOMAIN exiting
    /\ exiting[client] = "pending"
    /\ exiting' = [exiting EXCEPT ![client] = "done"]
    /\ IF /\ clients_stopped.state = "pending"
          /\ \A other \in DOMAIN exiting : exiting'[other] = "done"
       THEN Stopped("result")
       ELSE UNCHANGED << clients_stopped, call_later >>
    /\ UNCHANGED << registryvars, messagevars, listenvars >>

\* the deferred of one client.exit fires with a failure: gatherResults fires
\* its errback at the first one
exit_failed(client) ==
    /\ BrokerReply
    /\ client \in DOMAIN exiting
    /\ exiting[client] = "pending"
    /\ exiting' = [exiting EXCEPT ![client] = "failed"]
    /\ IF clients_stopped.state = "pending"
       THEN Stopped("failure")
       ELSE UNCHANGED << clients_stopped, call_later >>
    /\ UNCHANGED << registryvars, messagevars, listenvars >>

\* the events of the reactor, and the lists a caller may listen for (a
\* type may come twice)
EventTypes == {"exchange-done", "registration-done", "message"}

EventLists ==
    UNION { [ 1..n -> EventTypes ] : n \in 1..2 }

\* listen_events or fire_event is called.  Neither reads or writes what
\* the registry, the broadcasts and exit work on, so the two are followed
\* apart.
ListenStep ==
    /\ facade = "listen"
    /\ ops < MaxOps
    /\ ops' = ops + 1
    /\ UNCHANGED << aptvars, smartvars, skelvars, channelvars, depvars,
                    stdiovars, facade >>

\* the reactor goes on with the handlers of the event
ListenGoesOn ==
    /\ facade = "listen"
    /\ UNCHANGED << aptvars, smartvars, skelvars, channelvars, depvars,
                    stdiovars, facade, ops >>

\* listen_events, lines 268-271: one call_on per item of event_types, kept
\* in calls.  One listen_events call is followed per behaviour.
listen_events(event_types) ==
    /\ ListenStep
    /\ listen_calls = << >>
    /\ running = << >>
    /\ listen_calls' = [ i \in DOMAIN event_types |->
                           [ call |-> i, event_type |-> event_types[i] ] ]
    /\ event_handlers' = Range(listen_calls')
    /\ UNCHANGED << running, deferred_fired, handler_errors, first_event,
                    registryvars, messagevars, exitvars >>

\* fire_event, line 213: reactor.fire walks the handlers of the event, in
\* the order they were registered
fire_event(event_type) ==
    /\ ListenStep
    /\ running = << >>
    /\ running' = SelectSeq(listen_calls,
                            LAMBDA call : /\ call \in event_handlers
                                          /\ call.event_type = event_type)
    /\ first_event' = IF first_event = << >> /\ running' # << >>
                      THEN << event_type >> ELSE first_event
    /\ UNCHANGED << event_handlers, listen_calls, deferred_fired,
                    handler_errors, registryvars, messagevars, exitvars >>

\* faulty variant: a handler cancels its own call only
cancelled_own_call(call) == {call}

\* handler, lines 262-263: every call of the listen_events call
cancelled(call) == Range(listen_calls)

\* handler, lines 261-264, run by the reactor.  Deferred.callback raises
\* AlreadyCalledError when the deferred has fired, and so does not fire it
\* again; the reactor logs what a handler raises.
handler(call) ==
    /\ event_handlers' = event_handlers \ cancelled(call)
    /\ IF deferred_fired = << >>
       THEN /\ deferred_fired' = << call.event_type >>
            /\ UNCHANGED handler_errors
       ELSE /\ handler_errors' = handler_errors + 1
            /\ UNCHANGED deferred_fired

\* reactor.fire reaches its next handler.  Whether it still runs a handler
\* that was cancelled while it was walking the list is the reactor's
\* business: both are possible.
run_handler ==
    /\ ListenGoesOn
    /\ running # << >>
    /\ running' = Tail(running)
    /\ \/ handler(Head(running))
       \/ /\ Head(running) \notin event_handlers
          /\ UNCHANGED << event_handlers, deferred_fired, handler_errors >>
    /\ UNCHANGED << listen_calls, first_event, registryvars, messagevars,
                    exitvars >>

BrokerInit ==
    /\ facade = "broker"
    /\ FacadesIdle
    /\ SkeletonIdle
    /\ cache_packages = AllVersions

\* clients come to register, and their connections succeed or fail
RegistryNext ==
    \/ \E name \in ClientNames : register_client(name)
    \/ \E pending \in connecting : connect_succeeded(pending)
    \/ \E pending \in connecting : connect_failed(pending)

BrokerNext ==
    \/ RegistryNext
    \/ broadcast_event

MessagesInit ==
    /\ facade = "messages"
    /\ FacadesIdle
    /\ SkeletonIdle
    /\ cache_packages = AllVersions

MessagesNext ==
    \/ RegistryNext
    \/ \E message \in Messages : broadcast_message(message)
    \/ \E client \in connected, value \in BOOLEAN :
         message_returned(client, value)
    \/ \E client \in connected : message_failed(client)

MessagesSpec == MessagesInit /\ [][MessagesNext]_vars

ExitInit ==
    /\ facade = "exit"
    /\ FacadesIdle
    /\ SkeletonIdle
    /\ cache_packages = AllVersions

ExitNext ==
    \/ RegistryNext
    \/ stop_clients
    \/ exit
    \/ \E client \in connected : exit_returned(client)
    \/ \E client \in connected : exit_failed(client)

ExitSpec == ExitInit /\ [][ExitNext]_vars

ListenInit ==
    /\ facade = "listen"
    /\ FacadesIdle
    /\ SkeletonIdle
    /\ cache_packages = AllVersions

ListenNext ==
    \/ \E event_types \in EventLists : listen_events(event_types)
    \/ \E event_type \in EventTypes : fire_event(event_type)
    \/ run_handler

ListenSpec == ListenInit /\ [][ListenNext]_vars

BrokerSpec == BrokerInit /\ [][BrokerNext]_vars

\* a client told to exit answers in the end, with a result or a failure
ClientAnswers ==
    \E client \in connected : exit_returned(client) \/ exit_failed(client)

ExitLiveSpec == ExitSpec /\ WF_vars(ClientAnswers)

----------------------------------------------------------------------------
(* The commit section of AptFacade.perform_changes, statement by statement *)

\* a perform_changes call reaches line 652
StdioStep ==
    /\ facade = "stdio"
    /\ ops < MaxOps
    /\ ops' = ops + 1
    /\ UNCHANGED << aptvars, smartvars, skelvars, channelvars, depvars,
                    brokervars, facade >>

\* the call goes on to its next statement
StdioGoesOn ==
    /\ facade = "stdio"
    /\ UNCHANGED << aptvars, smartvars, skelvars, channelvars, depvars,
                    brokervars, facade, ops >>

\* the kernel hands out the lowest descriptor that is not open
lowest(table) ==
    CHOOSE n \in 0..Cardinality(DOMAIN table) :
        /\ n \notin DOMAIN table
        /\ \A m \in 0..(n - 1) : m \in DOMAIN table

\* os.dup(fd) returns lowest(table)
dup(table, fd) == Put(table, lowest(table), table[fd])

\* os.dup2(fd, fd2)
dup2(table, fd, fd2) == Put(table, fd2, table[fd])

\* tempfile.mkstemp creates a file no earlier call has named
mkstemp == "tmp" \o ToString(ops + 1)

\* lines 656-661: neither the descriptor of mkstemp nor the two copies are
\* closed by any line of the method
redirect ==
    /\ StdioStep
    /\ commit_frame.pc \in {"-", "left"}
    /\ LET opened == Put(fds, lowest(fds), mkstemp)
           saved_out == dup(opened, 1)
           saved_err == dup(saved_out, 2)
           fd == lowest(fds)
       IN  /\ fds' = dup2(dup2(saved_err, fd, 1), fd, 2)
           /\ tmp_files' = tmp_files \cup {mkstemp}
           /\ commit_frame' =
                [ pc |-> "try", fd |-> fd,
                  old_stdout |-> lowest(opened),
                  old_stderr |-> lowest(saved_out),
                  install_output_path |-> mkstemp,
                  stdout |-> fds[1], stderr |-> fds[2],
                  raised |-> "", dpkg_exited |-> "-" ]

\* what commit may raise: SystemError, or one of apt's own exceptions
CommitErrors == {"SystemError", "FetchFailedException"}

\* faulty variant: an exception no except clause names leaves the method
\* at once
after_raise_leaving(exception) ==
    IF exception = "SystemError" THEN "except" ELSE "left"

\* lines 662-681: the except clause takes SystemError, the finally clause
\* is next for any other exception
after_raise(exception) ==
    IF exception = "SystemError" THEN "except" ELSE "finally"

\* lines 663-667: commit returns, and dpkg exited cleanly or did not
commit_returns(exited) ==
    /\ StdioGoesOn
    /\ commit_frame.pc = "try"
    /\ commit_frame' =
         [ commit_frame EXCEPT
             !.dpkg_exited = exited,
             !.raised = IF dpkg_not_exited(exited) THEN "SystemError" ELSE "",
             !.pc = IF dpkg_not_exited(exited)
                    THEN after_raise("SystemError") ELSE "else" ]
    /\ UNCHANGED << fds, tmp_files >>

\* lines 663-665: commit raises
commit_raises(exception) ==
    /\ StdioGoesOn
    /\ commit_frame.pc = "try"
    /\ commit_frame' = [ commit_frame EXCEPT !.raised = exception,
                                              !.pc = after_raise(exception) ]
    /\ UNCHANGED << fds, tmp_files >>

\* lines 668-673: the log is read and TransactionError raised
except_clause ==
    /\ StdioGoesOn
    /\ commit_frame.pc = "except"
    /\ commit_frame.install_output_path \in tmp_files
    /\ commit_frame' = [ commit_frame EXCEPT !.raised = "TransactionError",
                                              !.pc = "finally" ]
    /\ UNCHANGED << fds, tmp_files >>

\* lines 674-676
else_clause ==
    /\ StdioGoesOn
    /\ commit_frame.pc = "else"
    /\ commit_frame.install_output_path \in tmp_files
    /\ commit_frame' = [ commit_frame EXCEPT !.pc = "finally" ]
    /\ UNCHANGED << fds, tmp_files >>

\* lines 677-681, and the method returns or the exception goes on
finally_clause ==
    /\ StdioGoesOn
    /\ commit_frame.pc = "finally"
    /\ fds' = dup2(dup2(fds, commit_frame.old_stdout, 1),
                   commit_frame.old_stderr, 2)
    /\ tmp_files' = tmp_files \ {commit_frame.install_output_path}
    /\ commit_frame' = [ commit_frame EXCEPT !.pc = "left" ]

StdioInit ==
    /\ facade = "stdio"
    /\ FacadesIdle
    /\ SkeletonIdle
    /\ cache_packages = AllVersions

StdioNext ==
    \/ redirect
    \/ \E exited \in DpkgExited : commit_returns(exited)
    \/ \E exception \in CommitErrors : commit_raises(exception)
    \/ except_clause
    \/ else_clause
    \/ finally_clause

StdioSpec == StdioInit /\ [][StdioNext]_vars

----------------------------------------------------------------------------
(* One of the two adapters is constructed; its operations are then called *)

Init == AptInit \/ SmartInit

Next == AptNext \/ SmartNext

Spec == Init /\ [][Next]_vars

----------------------------------------------------------------------------
(* The claims.  Their vocabulary is defined here from the claims' words,   *)
(* not from the operators of the model above.                               *)

b1 == [package |-> "b", ver |-> 1]

b2 == [package |-> "b", ver |-> 2]

c1 == [package |-> "c", ver |-> 1]

\* the state right after a perform_changes call of the modern adapter
Performed == result # "-"

\* the queued installs and removals
Requested == Range(version_installs) \cup Range(version_removals)

\* queued removals whose package the opened cache shows as held
HeldRemovals ==
    { v.package :
        v \in { w \in Range(version_removals) : w.package \in cache_hold } }

\* queued hold creations whose version is not the installed one
BadCreations ==
    { v \in Range(version_hold_creations) :
        cache_installed[v.package] # v.ver }

\* packages a global upgrade would upgrade, and the versions that changes
Upgradable ==
    { p \in Pkgs : /\ cache_installed[p] # 0
                   /\ p \notin cache_hold
                   /\ cache_installed[p] < Max(PkgVers(p)) }

UpgradeClosure ==
    UNION { { [package |-> p, ver |-> cache_installed[p]],
              [package |-> p, ver |-> Max(PkgVers(p))] } : p \in Upgradable }

C3_QueuePreserved ==
    [][ /\ (result' # "-" \/ smart_result' # "-") => UNCHANGED << queue, marks >>
        /\ ( \/ Len(version_installs') < Len(version_installs)
             \/ Len(version_removals') < Len(version_removals)
             \/ Len(version_hold_creations') < Len(version_hold_creations)
             \/ Len(version_hold_removals') < Len(version_hold_removals)
             \/ global_upgrade /\ ~global_upgrade' )
           => /\ result' = "-"
              /\ version_installs' = << >>
              /\ version_removals' = << >>
              /\ version_hold_creations' = << >>
              /\ version_hold_removals' = << >>
              /\ ~global_upgrade'
        /\ (\E pkg \in DOMAIN marks : pkg \notin DOMAIN marks')
           => /\ smart_result' = "-"
              /\ DOMAIN marks' = {}
      ]_vars

\* C3 witness: a rejected call with its marks still queued
C3_Witness ==
    /\ result = "DependencyError"
    /\ version_installs = << b1 >>
    /\ version_hold_creations = << c1 >>

\* C4 as stated: a call that raises DependencyError has changed neither the
\* installed versions nor the holds of the host.
C4_DependencyErrorChangesNothing ==
    [][ result' = "DependencyError" => UNCHANGED << dpkg_installed, dpkg_hold >> ]_vars

\* C5 as stated: when a queued removal is of a held package, the call raises
\* TransactionError naming exactly the held packages, neither the resolver
\* nor the commit runs, and the held packages stay installed.
C5_HeldRemovalNamed ==
    [][ (result' # "-" /\ HeldRemovals # {}) =>
            /\ result' = "TransactionError"
            /\ error_names' = HeldRemovals
            /\ "resolve" \notin calls'
            /\ "commit" \notin calls'
            /\ dpkg_installed' = dpkg_installed
            /\ \A p \in HeldRemovals : dpkg_installed'[p] # 0
      ]_vars

\* C5 amended: the same, provided every queued hold creation targets an
\* installed version (otherwise the error names those targets instead).
C5_HeldRemovalRejected ==
    [][ (result' # "-" /\ HeldRemovals # {} /\ BadCreations = {}) =>
            /\ result' = "TransactionError"
            /\ error_names' = HeldRemovals
            /\ "resolve" \notin calls'
            /\ "commit" \notin calls'
            /\ dpkg_installed' = dpkg_installed
            /\ \A p \in HeldRemovals : dpkg_installed'[p] # 0
      ]_vars

\* C5 witness: the removal is the old half of an upgrade of the held b
C5_Witness ==
    /\ result = "TransactionError"
    /\ error_text = "held"
    /\ error_names = {"b"}
    /\ version_installs = << b2 >>
    /\ version_removals = << b1 >>

\* C6: when a queued hold creation targets a version that is not installed,
\* the call raises TransactionError naming every such target's package and
\* does nothing else: no hold is set or removed, nothing is marked or
\* committed.
C6_HoldCreationAllOrNothing ==
    [][ (result' # "-" /\ BadCreations # {}) =>
            /\ result' = "TransactionError"
            /\ error_names' = { v.package : v \in BadCreations }
            /\ calls' = {}
            /\ UNCHANGED << dpkg_installed, dpkg_hold, candidate, mode >>
      ]_vars

\* C6 witness: one target is installed, the other is not, a hold removal and
\* nothing else is queued behind them
C6_Witness ==
    /\ result = "TransactionError"
    /\ error_text = "not installed"
    /\ \E v \in Range(version_hold_creations) : v \notin BadCreations
    /\ version_hold_removals # << >>

\* C7 as stated: with the four collections empty and the flag false,
\* perform_changes returns None, changes no state and calls nothing of the
\* backend.
C7_EmptyQueueNoStateChange ==
    [][ ( /\ result' # "-"
          /\ version_installs = << >> /\ version_removals = << >>
          /\ version_hold_creations = << >> /\ version_hold_removals = << >>
          /\ ~global_upgrade ) =>
            /\ result' = "None"
            /\ calls' = {}
            /\ UNCHANGED << dpkg, cache, depcache, catalog, queue >>
            /\ UNCHANGED << environ, dpkg_options >>
      ]_vars

\* C7 amended: such a call returns None and leaves the package state alone
\* (no resolver, no mark, no hold, no commit); what it does change is the
\* process: the front-end variables and DPkg::options get their fixed
\* values.
C7_EmptyQueueNoOp ==
    [][ ( /\ result' # "-"
          /\ version_installs = << >> /\ version_removals = << >>
          /\ version_hold_creations = << >> /\ version_hold_removals = << >>
          /\ ~global_upgrade ) =>
            /\ result' = "None"
            /\ calls' = {}
            /\ UNCHANGED << dpkg, cache, depcache, catalog, queue >>
            /\ environ' = "noninteractive"
            /\ dpkg_options' = {"--force-confold"}
      ]_vars

\* C7 witness: the no-op result of a call with nothing queued
C7_Witness ==
    /\ result = "None"
    /\ calls = {}
    /\ Requested = {}
    /\ hold_changes = << >>
    /\ ~global_upgrade
    /\ dpkg_options = {"--force-confold"}

\* C8 as stated: on the legacy adapter a call with no pending marks returns
\* None without any backend call.
C8_SmartEmptyQueueNoBackendCall ==
    (smart_result # "-" /\ DOMAIN marks = {}) =>
        /\ smart_result = "None"
        /\ smart_calls = {}

CommitReturned ==
    /\ "commit" \in calls
    /\ ~(result = "TransactionError" /\ error_text = "commit")

\* C11: when the commit returns without raising but dpkg_exited is not true,
\* perform_changes raises TransactionError, and the error carries the
\* captured fetch and install output.
C11_UncleanExitRaises ==
    (CommitReturned /\ dpkg_exited # "True") =>
        /\ result = "TransactionError"
        /\ result_text = << "fetch_output", "install_output" >>

\* C11 witness: the whole plan was applied, wait_child never ran, and the
\* call still fails
C11_Witness ==
    /\ result = "TransactionError"
    /\ error_text = "dpkg didn't exit cleanly."
    /\ dpkg_exited = "None"
    /\ committed = planned
    /\ planned # {}

\* C12 as stated: on either adapter, a call that reached the commit and did
\* not return its output raised TransactionError, no other kind of error.
C12_ApplyFailureIsTransactionError ==
    /\ ("commit" \in calls /\ result # "log") => result = "TransactionError"
    /\ ("commitChangeSet" \in smart_calls /\ smart_result # "output")
         => smart_result = "TransactionError"

\* the packages of the computed changeset whose pending mark is absent or
\* is another operation
Unmarked ==
    { e[1] : e \in { f \in smart_changeset :
                        \/ f[1] \notin DOMAIN marks
                        \/ marks[f[1]] # f[2] } }

\* C13: the legacy adapter calls commitChangeSet only when every entry of
\* the changeset has a pending mark with that operation; otherwise it raises
\* DependencyError listing exactly the entries' packages that have not, and
\* an empty changeset returns None; neither commits.
C13_SmartCommitOnlyMarked ==
    smart_result # "-" =>
        /\ "commitChangeSet" \in smart_calls =>
              (Unmarked = {} /\ smart_changeset # {})
        /\ Unmarked # {} =>
              /\ smart_result = "DependencyError"
              /\ smart_missing = Unmarked
              /\ "commitChangeSet" \notin smart_calls
        /\ (smart_changeset = {} /\ smart_result # "TransactionError") =>
              /\ smart_result = "None"
              /\ "commitChangeSet" \notin smart_calls

\* C13 witness: the changeset removes a package marked for installation
\* next to an entry that is marked as computed; only the former is listed
C13_Witness ==
    /\ smart_result = "DependencyError"
    /\ \E e \in smart_changeset :
         e[1] \in DOMAIN marks /\ marks[e[1]] # e[2] /\ e[1] \in smart_missing
    /\ \E e \in smart_changeset : e[1] \notin smart_missing

----------------------------------------------------------------------------
(* The claims on the skeleton *)

\* both skeletons have been hashed since they were last changed
BothHashed == digest[1] # << >> /\ digest[2] # << >>

SameIdentity ==
    /\ skeleton[1].type = skeleton[2].type
    /\ skeleton[1].name = skeleton[2].name
    /\ skeleton[1].version = skeleton[2].version

\* how many times a relation was given to a skeleton
Times(i, pair) == Cardinality({ k \in DOMAIN added[i] : added[i][k] = pair })

C15_DuplicatesCollapse ==
    ( /\ BothHashed
      /\ SameIdentity
      /\ Range(added[1]) = Range(added[2])
      /\ \A pair \in Range(added[1]) : Times(1, pair) = 1 )
        => /\ skeleton[1].relations = skeleton[2].relations
           /\ digest[1] = digest[2]

\* C16 as stated: two skeletons that differ in name, in version or in a
\* relation are never serialized to the same bytes.
C16_SerializationInjective ==
    ( /\ BothHashed
      /\ \/ skeleton[1].name # skeleton[2].name
         \/ skeleton[1].version # skeleton[2].version
         \/ skeleton[1].relations # skeleton[2].relations )
        => digest[1] # digest[2]

\* C17: the skeleton a version is built into with its info has the type,
\* name, version, relations and digest of the one built without, and the
\* latter has none of the five optional fields set.
C17_InfoNotInIdentity ==
    \A i \in {1, 2}, j \in {1, 2} :
        ( /\ built[i] # << >> /\ built[j] # << >>
          /\ built[i][1] = built[j][1]
          /\ built[i][3] = built[j][3]
          /\ built[i][2] /\ ~built[j][2] )
        => /\ skeleton[i].type = skeleton[j].type
           /\ skeleton[i].name = skeleton[j].name
           /\ skeleton[i].version = skeleton[j].version
           /\ skeleton[i].relations = skeleton[j].relations
           /\ BothHashed => digest[i] = digest[j]
           /\ skeleton[j].section = << >>
           /\ skeleton[j].summary = << >>
           /\ skeleton[j].description = << >>
           /\ skeleton[j].size = << >>
           /\ skeleton[j].installed_size = << >>

\* C17 witness: b 2 built both ways and hashed, the info in place
C17_Witness ==
    /\ built[1] = << b2, TRUE, "apt" >>
    /\ built[2] = << b2, FALSE, "apt" >>
    /\ BothHashed
    /\ digest[1] = digest[2]
    /\ skeleton[1].summary # << >>
    /\ skeleton[1].installed_size # << >>

----------------------------------------------------------------------------
(* The claims on the catalog index *)

\* the key of a version in _pkg2hash
IndexKey(v) == IF facade = "apt" THEN apt_key(v) ELSE v

\* the versions of the cache a reload indexes
Indexable ==
    { v \in cache_packages :
        facade = "apt" => package_name(v.package) = package_shortname(v.package) }

\* the digest of a version, as its facade computes it
HashOf(v) == IF facade = "apt" THEN apt_hash[v] ELSE smart_hash[v]

\* what get_package_hash of the facade returns
PackageHash(v) ==
    IF facade = "apt" THEN get_package_hash(v) ELSE smart_get_package_hash(v)

\* what get_packages of the facade returns
Packages ==
    IF facade = "apt" THEN get_packages ELSE Range(smart_get_packages)

C19_IndexIsCurrentCache ==
    reload_result = "None" =>
        /\ DOMAIN pkg2hash = { IndexKey(v) : v \in Indexable }
        /\ \A v \in Indexable : PackageHash(v) = << HashOf(v) >>
        /\ \A v \in once_indexed \ Indexable :
              /\ PackageHash(v) = None
              /\ v \notin Packages
              /\ \A h \in DOMAIN hash2pkg : get_package_by_hash(h) # << v >>
              /\ HashOf(v) \notin { HashOf(w) : w \in Indexable } =>
                    /\ HashOf(v) \notin get_package_hashes
                    /\ get_package_by_hash(HashOf(v)) = None

\* C19 witness: c 1 was indexed once and is gone from the cache, which now
\* holds b 1 and the foreign b; the reload returned
C19_Witness ==
    /\ reload_result = "None"
    /\ facade = "apt"
    /\ c1 \in once_indexed
    /\ cache_packages = {b1, foreign}
    /\ DOMAIN pkg2hash = { apt_key(b1) }

\* C20 as stated: after a reload that returned, the two maps are inverse to
\* each other and have as many entries.
C20_IndexBijection ==
    reload_result = "None" =>
        /\ \A v \in Indexable :
              get_package_by_hash(pkg2hash[IndexKey(v)]) = << v >>
        /\ \A h \in DOMAIN hash2pkg :
              PackageHash(hash2pkg[h]) = << h >>
        /\ Cardinality(DOMAIN hash2pkg) = Cardinality(DOMAIN pkg2hash)

\* C21 as stated: a reload that fails leaves the index as it was; the
\* ensure_channels_reloaded call that follows a failed one reloads again;
\* and ensure_channels_reloaded returns without reloading only once a
\* reload has returned.
C21_FailedLoadRetried ==
    [][ /\ (ops' = ops + 1 /\ reload_result' = "ChannelError") =>
              (hash2pkg' = hash2pkg /\ pkg2hash' = pkg2hash)
        /\ ~ ( /\ ensure_result = "ChannelError"
               /\ reload_result = "ChannelError"
               /\ ensure_result' = "skipped" )
        /\ (ops' = ops + 1 /\ ensure_result' = "skipped") => ever_reloaded
      ]_vars

----------------------------------------------------------------------------
(* The claims on the channels *)

\* the lines of the internal sources list: what is before each newline
SourcesLines ==
    IF sources_list = None THEN << >>
    ELSE LET lines == split(sources_list[1])
         IN  SubSeq(lines, 1, Len(lines) - 1)

\* C22: the internal sources list holds every line add_channel_apt_deb was
\* given since it was last cleared, once each and in the order they first
\* came, each ended by a newline; a line given again changes nothing.
C22_AddChannelIdempotent ==
    /\ SourcesLines = first_added
    /\ \A i, j \in DOMAIN SourcesLines :
          SourcesLines[i] = SourcesLines[j] => i = j
    /\ sources_list # None =>
          /\ sources_list[1] # << >>
          /\ sources_list[1][Len(sources_list[1])] = "\n"

\* C22 witness: three calls gave two lines, one of them twice, and one line
\* is the beginning of the other
C22_Witness ==
    /\ ops = 3
    /\ Len(first_added) = 2
    /\ Len(first_added[2]) < Len(first_added[1])
    /\ SubSeq(first_added[1], 1, Len(first_added[2])) = first_added[2]
    /\ SourcesLines = first_added

----------------------------------------------------------------------------
(* The claims on the queue and on perform_changes of AptFacade *)

QueueEmpty ==
    /\ version_installs = << >>
    /\ version_removals = << >>
    /\ version_hold_creations = << >>
    /\ version_hold_removals = << >>
    /\ ~global_upgrade

\* C23: reset_marks leaves the four lists empty, the flag false and the
\* depcache as Cache.open leaves it, and the perform_changes that comes
\* right after a reset_marks returns None, whatever was marked and attempted
\* before.
C23_ResetThenPerformIsNoOp ==
    [][ /\ reset_marks =>
              /\ QueueEmpty'
              /\ candidate' = DefaultCandidate
              /\ mode' = DefaultMode
        /\ (reset_after # "-" /\ result = "-" /\ result' # "-") =>
              /\ result' = "None"
              /\ calls' = {}
              /\ committed' = {}
              /\ UNCHANGED << dpkg, cache, depcache, queue >>
      ]_vars

\* C23 witness: a perform_changes raised TransactionError, reset_marks came
\* next, and the perform_changes after it returned None
C23_Witness ==
    /\ reset_after = "TransactionError"
    /\ result = "None"
    /\ QueueEmpty
    /\ ops = 4

\* the broken packages of the depcache before and after the step
BrokenBefore == get_broken_packages([candidate |-> candidate, mode |-> mode])

BrokenAfter == get_broken_packages([candidate |-> candidate', mode |-> mode'])

\* the step is a perform_changes that went past the held check of lines
\* 638-641
PastHeldCheck ==
    /\ result' # "-"
    /\ "get_broken_packages" \in calls'
    /\ error_text' # "held"

\* C24: in a perform_changes that reaches line 642, the resolver is invoked
\* if and only if the broken packages of the depcache with every mark
\* applied differ from the broken packages of the depcache as the call found
\* it; when they are the same the call leaves them broken as they were and
\* does not raise the TransactionError of the resolver.
C24_ResolverIffBrokenSetChanged ==
    [][ PastHeldCheck =>
          /\ "resolve" \in calls' <=> get_broken_packages(marked) # BrokenBefore
          /\ "resolve" \notin calls' =>
                /\ BrokenAfter = BrokenBefore
                /\ error_text' # "unresolved"
      ]_vars

\* C24 witness: b is installed without c, the index is loaded, and a
\* perform_changes with a queued install went through the marking without
\* invoking the resolver, b still broken
C24_Witness ==
    /\ ops = 3
    /\ result = "None"
    /\ version_installs # << >>
    /\ "get_broken_packages" \in calls
    /\ "resolve" \notin calls
    /\ get_broken_packages([candidate |-> candidate, mode |-> mode]) = {"b"}

\* the reason the report gives for c, the one package b depends on
ReasonOfC ==
    IF cache_installed["c"] # 0 \/ mode'["c"] = "install"
    THEN " but 1 is to be installed"
    ELSE " but is not installable"

\* the report of the depcache the call leaves: b is the one package that
\* can be broken, and its candidate 2 has a Pre-Depends on c or d (>= 1)
\* next to the Depends on c
UnmetReport ==
    IF BrokenAfter = {} THEN ""
    ELSE "The following packages have unmet dependencies:"
         \o (IF candidate'["b"] = 2
             THEN "\n  b: PreDepends: c" \o ReasonOfC \o " or\n"
                  \o "                 d (>= 1) but is not installable"
             ELSE "")
         \o "\n  b: Depends: c" \o ReasonOfC

\* C25: a perform_changes whose resolver is invoked and has no solution
\* raises; when the resolver fails the call raises TransactionError, the
\* text being the resolver's message, a newline and the report of the
\* unmet dependencies, and neither _check_changes nor commit has run.
C25_UnresolvedRaisesWithReport ==
    [][ /\ (result' # "-" /\ "resolve" \in calls' /\ resolve(marked) = {}) =>
              error_text' = "unresolved"
        /\ error_text' = "unresolved" =>
              /\ result' = "TransactionError"
              /\ "resolve" \in calls'
              /\ error_report' = "\n" \o UnmetReport
              /\ planned' = {}
              /\ "commit" \notin calls'
              /\ committed' = {}
              /\ dpkg_exited' = "-"
              /\ dpkg_installed' = dpkg_installed
      ]_vars

\* C25 witness: the resolver failed with b broken, and the report names the
\* two unmet dependencies of b 2
C25_Witness ==
    /\ result = "TransactionError"
    /\ error_text = "unresolved"
    /\ candidate["b"] = 2
    /\ error_report =
          "\nThe following packages have unmet dependencies:"
          \o "\n  b: PreDepends: c but 1 is to be installed or"
          \o "\n                 d (>= 1) but is not installable"
          \o "\n  b: Depends: c but 1 is to be installed"

\* the installed version of a package
InstalledVersion(p) == [package |-> p, ver |-> cache_installed[p]]

\* the step leaves the installed package p marked for another version
MarkedForUpgrade(p) ==
    /\ cache_installed[p] # 0
    /\ mode'[p] = "install"
    /\ candidate'[p] # cache_installed[p]

\* a package with a queued removal and a queued install is not marked for
\* deletion by the call, and a call that commits its upgrade has both the
\* installed and the new version in the queue
OldHalfOfUpgrade ==
    /\ "get_broken_packages" \in calls' =>
           \A p \in package_upgrades : mode'[p] # "delete"
    /\ "commit" \in calls' =>
           \A p \in package_upgrades :
               MarkedForUpgrade(p) =>
                   /\ InstalledVersion(p) \in Requested
                   /\ [package |-> p, ver |-> candidate'[p]] \in Requested

\* C26 as stated: a package with a queued removal and a queued install is
\* never marked for deletion, its upgrade is committed only with both
\* versions queued, and when its installed version is not queued for
\* removal the call raises DependencyError listing that version.
C26_UpgradeNeedsOldHalf ==
    [][ result' # "-" =>
          /\ OldHalfOfUpgrade
          /\ \A p \in package_upgrades :
                ( /\ cache_installed[p] # 0
                  /\ InstalledVersion(p) \notin Range(version_removals) ) =>
                    /\ result' = "DependencyError"
                    /\ InstalledVersion(p) \in error_packages'
      ]_vars

\* C26 amended: the same, the DependencyError being raised when the call
\* marks the package for an upgrade, its installed version is in neither
\* queued list, and no TransactionError is raised before the check.
C26_UpgradeNeedsOldHalfQueued ==
    [][ result' # "-" =>
          /\ OldHalfOfUpgrade
          /\ \A p \in package_upgrades :
                ( /\ MarkedForUpgrade(p)
                  /\ InstalledVersion(p) \notin Requested
                  /\ result' # "TransactionError" ) =>
                    /\ result' = "DependencyError"
                    /\ InstalledVersion(p) \in error_packages'
      ]_vars

\* C26 witness: b 1 is installed, b 2 is queued both as an install and as
\* a removal; b is left marked for the upgrade and b 1 is reported
C26_Witness ==
    /\ result = "DependencyError"
    /\ version_installs = << b2 >>
    /\ version_removals = << b2 >>
    /\ cache_installed["b"] = 1
    /\ mode["b"] = "install"
    /\ b1 \in error_packages

\* C27 as stated: the holds a batch queues count when its removals are
\* looked at.  A batch of mark_create_hold(v) and mark_remove(v), v
\* installed, raises TransactionError naming the package of v and leaves v
\* installed; a batch of mark_remove_hold(v) and mark_remove(v), v installed
\* and held, is not rejected for the package being held.
C27_HoldsBeforeVersionChanges ==
    [][ result' # "-" =>
          \A v \in AllVersions :
              /\ ( /\ version_hold_creations = << v >>
                    /\ version_removals = << v >>
                    /\ version_installs = << >>
                    /\ version_hold_removals = << >>
                    /\ ~global_upgrade
                    /\ is_package_installed(v) ) =>
                      /\ result' = "TransactionError"
                      /\ v.package \in error_names'
                      /\ dpkg_installed'[v.package] = v.ver
              /\ ( /\ version_hold_removals = << v >>
                    /\ version_removals = << v >>
                    /\ version_installs = << >>
                    /\ version_hold_creations = << >>
                    /\ ~global_upgrade
                    /\ is_package_installed(v)
                    /\ is_package_held(v.package) ) =>
                      ~(result' = "TransactionError" /\ error_text' = "held")
      ]_vars

----------------------------------------------------------------------------
(* The claim on _is_dependency_satisfied *)

\* some target package of some alternative is installed or marked for
\* install, and not marked for delete
Hit(flags, dependency) ==
    \E i \in DOMAIN dependency :
        \E package \in Range(dependency[i].all_targets) :
            /\ \/ flags[package].current_state = "Installed"
               \/ flags[package].marked_install
            /\ ~flags[package].marked_delete

\* C28: _is_dependency_satisfied returns hit for PreDepends and Depends
\* and not hit for Conflicts and Breaks, hit meaning that some target
\* package of some alternative is installed or marked for install, and not
\* marked for delete.
C28_DependencySatisfiedAsReference ==
    dep_checked # << >> =>
        dep_checked[3] =
            IF dep_checked[2] \in {"PreDepends", "Depends"}
            THEN Hit(dep_flags, dep_checked[1])
            ELSE ~Hit(dep_flags, dep_checked[1])

\* C28 witness: a Conflicts whose first alternative has only b, installed
\* and marked for delete, and whose second has c, marked for install, was
\* found not satisfied
C28_Witness ==
    /\ dep_checked # << >>
    /\ dep_checked[2] = "Conflicts"
    /\ dep_checked[3] = FALSE
    /\ Len(dep_checked[1]) = 2
    /\ dep_checked[1][1].all_targets = << "b" >>
    /\ dep_checked[1][2].all_targets = << "c" >>
    /\ dep_flags["b"].marked_delete
    /\ dep_flags["c"].marked_install

----------------------------------------------------------------------------
(* The claims on get_hash as a read, and on the skeleton of AptFacade *)

\* C29 as stated: get_hash leaves every field of the skeleton as it was,
\* the order of its relations included, and a call that follows another
\* with no change in between returns the same digest.
C29_GetHashIsPureRead ==
    [][ \A i \in {1, 2} :
          call_get_hash(i) =>
              /\ skeleton'[i] = skeleton[i]
              /\ digest[i] # << >> => digest'[i] = digest[i]
      ]_vars

\* the relations of kind type among those of skeleton i
OfKind(i, type) ==
    { k \in DOMAIN skeleton[i].relations : skeleton[i].relations[k][1] = type }

\* C30 as stated: the skeleton AptFacade builds of a version with name n
\* and version string s has one name-provides relation, "n = s", and one
\* upgrades relation, "n < s", the same as the skeleton SmartFacade builds
\* of it has, and its relations are in increasing order of (kind,
\* description), none twice.
C30_AptSkeletonRelations ==
    \A i \in {1, 2} :
        (built[i] # << >> /\ built[i][3] = "apt") =>
            LET version   == built[i][1]
                n         == package_name(version.package)
                s         == version_string(version)
                relations == skeleton[i].relations
            IN  /\ Cardinality(OfKind(i, DEB_NAME_PROVIDES)) = 1
                /\ Cardinality(OfKind(i, DEB_UPGRADES)) = 1
                /\ << DEB_NAME_PROVIDES, n \o << " ", "=", " " >> \o s >>
                      \in Range(relations)
                /\ << DEB_UPGRADES, n \o << " ", "<", " " >> \o s >>
                      \in Range(relations)
                /\ version \in AllVersions =>
                      \A pair \in Range(smart_skeleton[version, FALSE].relations) :
                          pair[1] \in {DEB_NAME_PROVIDES, DEB_UPGRADES} =>
                              pair \in Range(relations)
                /\ \A k \in 1..(Len(relations) - 1) :
                      PairLess(relations[k], relations[k + 1])

----------------------------------------------------------------------------
(* The claims on BrokerServer *)

\* the step gathers the results of a broadcast_message
Delivers == Len(delivered') = Len(delivered) + 1

\* what the step asks the exchanger to send
NewlySent == SubSeq(exchanger_sent', Len(exchanger_sent) + 1, Len(exchanger_sent'))

\* the one message the claim expects for the operation of message
FailedResult(message) ==
    /\ Len(NewlySent) = 1
    /\ NewlySent[1].urgent
    /\ NewlySent[1].message.type = "operation-result"
    /\ NewlySent[1].message.status = "FAILED"
    /\ NewlySent[1].message.opid = message.opid[1]

C33_ExitWaitsForEveryClient ==
    clients_stopped.state \in {"result", "failure"} =>
        \A client \in DOMAIN exiting : exiting[client] # "pending"

\* the deferred of the stop_clients of an exit fires in the step
ExitStopped ==
    \/ exit /\ get_clients = {}
    \/ /\ clients_stopped.by = "exit"
       /\ clients_stopped.state = "pending"
       /\ clients_stopped'.state # "pending"

\* C34: the step in which the clients of an exit are stopped, with a result
\* or with a failure, gives reactor.call_later one more call, with delay 1,
\* exit having been called on every client before; no other step schedules
\* anything; and as the clients answer, every exit gets there.
C34_ExitSchedulesStopOnce ==
    /\ [][ /\ exit => DOMAIN exiting' = get_clients
           /\ ExitStopped => call_later' = Append(call_later, 1)
           /\ ~ExitStopped => call_later' = call_later
         ]_vars
    /\ (clients_stopped.by = "exit" /\ clients_stopped.state = "pending")
          ~> (clients_stopped.state # "pending")

\* C34 witness: an exit with two clients, one of which failed, has
\* scheduled its one stop
C34_Witness ==
    /\ clients_stopped = [state |-> "failure", by |-> "exit"]
    /\ Cardinality(DOMAIN exiting) = 2
    /\ call_later = << 1 >>

\* C32: the deferred of listen_events fires once, from not fired to fired
\* with the first of the listened events that the reactor fired; when it
\* has fired none of the handlers of the call is registered any more; and
\* once the reactor is through with that first event, it has fired.
C32_ListenFiresOnceWithFirstEvent ==
    /\ Len(deferred_fired) <= 1
    /\ deferred_fired # << >> =>
          /\ deferred_fired = first_event
          /\ event_handlers \cap Range(listen_calls) = {}
    /\ (first_event # << >> /\ running = << >>) =>
          deferred_fired = first_event

\* C32 witness: the same type was listed twice, the reactor ran both
\* handlers, and the second raised instead of firing the deferred again
C32_Witness ==
    /\ Len(listen_calls) = 2
    /\ listen_calls[1].event_type = "exchange-done"
    /\ listen_calls[2].event_type = "exchange-done"
    /\ deferred_fired = << "exchange-done" >>
    /\ handler_errors = 1
    /\ running = << >>

\* what the four getters of the registry answer
Registry ==
    << get_clients, get_connectors,
       [ name \in ClientNames |-> get_client(name) ],
       [ name \in ClientNames |-> get_connector(name) ] >>

\* C35: a client is in the registry only once its connect has succeeded:
\* register_client itself and a failed connect leave the answers of
\* get_client, get_clients, get_connector and get_connectors as they were,
\* the registry changes only when a connect succeeds, and an event
\* broadcast reaches only clients whose connection completed.
C35_RegisteredAfterConnect ==
    [][ /\ (\/ \E name \in ClientNames : register_client(name)
            \/ \E pending \in connecting : connect_failed(pending))
           => Registry' = Registry
        /\ Registry' # Registry
           => \E pending \in connecting : connect_succeeded(pending)
        /\ get_clients' \subseteq connected'
        /\ broadcast_event => event_reached' \subseteq connected
      ]_vars

\* C35 witness: of three register_client calls one connected, one failed
\* and one is pending, and an event reached the connected client alone
C35_Witness ==
    /\ created = 3
    /\ Cardinality(connecting) = 1
    /\ Cardinality(connected) = 1
    /\ event_reached = connected
    /\ get_clients = connected

\* C39: the connectors map holds one connector per registered client:
\* get_connectors has as many entries as get_clients, and every connector
\* kept is the one of a client get_clients returns.
C39_OneConnectorPerClient ==
    /\ Cardinality(get_connectors) = Cardinality(get_clients)
    /\ DOMAIN connectors = get_clients

\* C36 as stated: a perform_changes call that returns None has changed
\* nothing in the backend; in particular it has not applied holds to dpkg
\* before finding the plan of its version changes empty.
C36_NoneChangesNothing ==
    [][ (perform_changes /\ result' = "None") => UNCHANGED dpkg ]_vars

\* C37 as stated: a perform_changes call that is rejected, with a
\* TransactionError for held packages or an unresolvable state or with a
\* DependencyError, leaves the marks of the depcache as they were before
\* the call.
C37_RejectedLeavesSelection ==
    [][ ( /\ perform_changes
          /\ \/ result' = "TransactionError" /\ error_text' = "held"
             \/ result' = "TransactionError" /\ error_text' = "unresolved"
             \/ result' = "DependencyError" )
        => UNCHANGED depcache ]_vars

----------------------------------------------------------------------------
(* The claim on the redirection of stdout and stderr *)

Redirected == commit_frame.pc \in {"try", "except", "else", "finally"}

\* C38: between the redirection and the finally clause descriptors 1 and 2
\* are bound to the temporary log file; however the commit ends (it
\* returns, raises SystemError, or raises something else), once the call
\* is left descriptors 1 and 2 are bound to what they were bound to when
\* the call began and the temporary file is gone.
C38_RedirectionUndone ==
    /\ Redirected =>
          /\ fds[1] = commit_frame.install_output_path
          /\ fds[2] = commit_frame.install_output_path
          /\ commit_frame.install_output_path \in tmp_files
    /\ commit_frame.pc = "left" =>
          /\ fds[1] = commit_frame.stdout
          /\ fds[2] = commit_frame.stderr
          /\ tmp_files = {}

\* C38 witness: the second commit of a process raised an exception that is
\* not SystemError, and stdout and stderr are back on the journal and the
\* terminal
C38_Witness ==
    /\ commit_frame.pc = "left"
    /\ commit_frame.raised = "FetchFailedException"
    /\ ops = 2
    /\ fds[1] = "journal"
    /\ fds[2] = "tty"

----------------------------------------------------------------------------
(* The claim on the channels of SmartFacade *)

\* the repositories get_channels of SmartFacade shows: base URL and
\* distribution of its apt-deb channels
SmartRepositories ==
    { << smart_get_channels[a].baseurl, smart_get_channels[a].distribution >> :
        a \in { b \in DOMAIN smart_get_channels :
                   smart_get_channels[b].type = "apt-deb" } }

\* C40 as stated: add_channel_apt_deb of SmartFacade accumulates: after a
\* call the repository just added and every repository get_channels showed
\* before are in get_channels, also when two of them have the same
\* distribution name and different base URLs.
C40_SmartChannelsAccumulate ==
    [][ \A url \in ChannelUrls, codename \in ChannelCodenames,
           components \in ChannelComponents :
          smart_add_channel_apt_deb(url, codename, components) =>
              /\ << url, codename >> \in SmartRepositories'
              /\ SmartRepositories \subseteq SmartRepositories'
      ]_vars

====
